---- MODULE Spec2Model ----
(***************************************************************************)
(* A model of the HMI agent (src/agents/hmiAgent.js) and of its Express    *)
(* server (src/unnamed/part_002).                                          *)
(*                                                                         *)
(* Three specifications share the module:                                  *)
(*   SpecGen  the Screen Specification Generator (generateScreenSpecifi-   *)
(*            cation and everything it calls),                             *)
(*   SpecWf   generateWorkflowDiagram: the Screen Identifier's model call  *)
(*            and the Workflow Composer,                                   *)
(*   SpecSrv  the server's two-step flow with concurrent requests on the   *)
(*            one long-lived agent object.                                 *)
(* Each specification moves its own variables and leaves the others parked.*)
(***************************************************************************)
EXTENDS Integers, Sequences, FiniteSets, TLC

(***************************************************************************)
(* Bounds of the model.                                                    *)
(***************************************************************************)
\* most operations / equipment / parameters the document yields near a screen
MaxOps == 2
\* most non-home screen names in the session's screen list
MaxOthers == 1
\* most equipment terms the document yields near a screen
MaxEquip == 1
\* longest element list the model's JSON carries
MaxModelElems == 7

(***************************************************************************)
(* Program constants.                                                      *)
(***************************************************************************)
CanvasWidth == 800
CanvasHeight == 600
MinElements == 6
PadTarget == 8

(***************************************************************************)
(* Helpers.                                                                *)
(***************************************************************************)
Max(a, b) == IF a >= b THEN a ELSE b
Min(a, b) == IF a <= b THEN a ELSE b
Range(s) == {s[i] : i \in DOMAIN s}
Take(s, n) == SubSeq(s, 1, Min(n, Len(s)))

(***************************************************************************)
(* Screen names.  String.prototype.includes on the lower-cased name is     *)
(* tabulated for the names the model draws; RegexOk tells whether          *)
(* new RegExp(`\\b${screenName}\\b...`) accepts the name as a pattern      *)
(* ("Pump (A" has an unterminated group: the constructor throws).          *)
(***************************************************************************)
ScreenNames ==
    { "Home Screen", "Manual Control", "Auto Mode", "Test Screen",
      "Pump Screen", "Purge Screen", "Settings Screen", "Alarm Screen",
      "Time Tracking", "User Screen", "Overview", "Pump (A" }

NameKeywords(name) ==
    CASE name = "Home Screen"     -> {"home"}
      [] name = "Manual Control"  -> {"manual", "control"}
      [] name = "Auto Mode"       -> {"auto"}
      [] name = "Test Screen"     -> {"test"}
      [] name = "Pump Screen"     -> {"pump"}
      [] name = "Purge Screen"    -> {"purge"}
      [] name = "Settings Screen" -> {"settings", "setting"}
      [] name = "Alarm Screen"    -> {"alarm"}
      [] name = "Time Tracking"   -> {"time", "tracking"}
      [] name = "User Screen"     -> {"user"}
      [] name = "Pump (A"         -> {"pump"}
      [] OTHER                    -> {}

Includes(name, kw) == kw \in NameKeywords(name)

RegexOk(name) == name # "Pump (A"

(***************************************************************************)
(* JSON values.  An element is an object with a type, a label and a        *)
(* position; a position is a function from the fields it carries to        *)
(* numbers (a missing field is absent from its domain).  NullElem is the   *)
(* JSON null inside an elements array.                                     *)
(***************************************************************************)
NullElem == [t |-> "null"]

Pos(x, y, w, h) == [x |-> x, y |-> y, width |-> w, height |-> h]

El(type, label, x, y, w, h) ==
    [t |-> "obj", type |-> type, label |-> label, position |-> Pos(x, y, w, h)]

\* String.prototype.toUpperCase on the terms the model uses
Upper(s) ==
    CASE s = "start"    -> "START"
      [] s = "manual"   -> "MANUAL"
      [] s = "transfer" -> "TRANSFER"
      [] s = "settings" -> "SETTINGS"
      [] s = "engine"   -> "ENGINE"
      [] s = "battery"  -> "BATTERY"
      [] s = "pressure" -> "PRESSURE"
      [] s = "sensor"   -> "SENSOR"
      [] s = "voltage 480" -> "VOLTAGE 480"
      [] s = "oil pressure" -> "OIL PRESSURE"
      [] s = "rpm 1800" -> "RPM 1800"
      [] s = "fuel level" -> "FUEL LEVEL"
      [] s = "Start" -> "START"
      [] s = "Stop" -> "STOP"
      [] s = "Manual Operation" -> "MANUAL OPERATION"
      [] s = "Auto Operation" -> "AUTO OPERATION"
      [] s = "Emergency Stop" -> "EMERGENCY STOP"
      [] s = "Configure System" -> "CONFIGURE SYSTEM"
      [] s = "Set Parameters" -> "SET PARAMETERS"
      [] s = "Calibrate" -> "CALIBRATE"
      [] s = "User Management" -> "USER MANAGEMENT"
      [] s = "Save Settings" -> "SAVE SETTINGS"
      [] s = "System Control Operations" -> "SYSTEM CONTROL OPERATIONS"
      [] s = "Start Button" -> "START BUTTON"
      [] s = "Stop Button" -> "STOP BUTTON"
      [] s = "Mode Selector" -> "MODE SELECTOR"
      [] s = "Transfer Switch" -> "TRANSFER SWITCH"
      [] s = "Configuration" -> "CONFIGURATION"
      [] s = "Parameters" -> "PARAMETERS"
      [] s = "Calibration" -> "CALIBRATION"
      [] s = "User Settings" -> "USER SETTINGS"
      [] s = "System Settings" -> "SYSTEM SETTINGS"
      [] s = "Generator System Components" -> "GENERATOR SYSTEM COMPONENTS"
      [] s = "Operating Mode" -> "OPERATING MODE"
      [] s = "Load Percentage" -> "LOAD PERCENTAGE"
      [] s = "Runtime Hours" -> "RUNTIME HOURS"
      [] s = "Start Counter" -> "START COUNTER"
      [] s = "Transfer Status" -> "TRANSFER STATUS"
      [] s = "Start Delay" -> "START DELAY"
      [] s = "Transfer Time" -> "TRANSFER TIME"
      [] s = "Alarm Delays" -> "ALARM DELAYS"
      [] s = "User Access" -> "USER ACCESS"
      [] s = "Network Settings" -> "NETWORK SETTINGS"
      [] s = "System Parameters" -> "SYSTEM PARAMETERS"
      [] s = "Alarm Screen" -> "ALARM SCREEN"
      [] s = "Settings Screen" -> "SETTINGS SCREEN"
      [] s = "Test Screen" -> "TEST SCREEN"
      [] OTHER -> s

(***************************************************************************)
(* The document context of one screen.  doc.ops and doc.equip are how many  *)
(* distinct operation / equipment terms the regular expressions of         *)
(* extract*FromSection find in the screen's section of the document (no    *)
(* generator reads both the operations and the parameters, so doc.ops also *)
(* counts the parameter terms found); doc.others is how many names of the  *)
(* session's screen list contain neither "home" nor "main".                *)
(***************************************************************************)
OpTerms == <<"start", "manual", "transfer", "settings">>
EquipTerms == <<"engine", "battery", "pressure", "sensor">>
ParamTerms == <<"voltage 480", "oil pressure", "rpm 1800", "fuel level">>
OtherScreenNames == <<"Alarm Screen", "Settings Screen", "Test Screen">>

Docs == [ops : 0..MaxOps, equip : 0..MaxEquip, others : 0..MaxOthers]

DefaultKey(name) ==
    IF Includes(name, "main") THEN "main"
    ELSE IF Includes(name, "dashboard") THEN "dashboard"
    ELSE IF Includes(name, "control") THEN "control"
    ELSE IF Includes(name, "generator") THEN "generator"
    ELSE IF Includes(name, "maintenance") THEN "maintenance"
    ELSE IF Includes(name, "settings") THEN "settings"
    ELSE "none"

getDefaultEquipment(name) ==
    CASE DefaultKey(name) = "control" ->
            <<"Start Button", "Stop Button", "Emergency Stop", "Mode Selector", "Transfer Switch">>
      [] DefaultKey(name) = "settings" ->
            <<"Configuration", "Parameters", "Calibration", "User Settings", "System Settings">>
      [] OTHER -> <<"Generator System Components">>

getDefaultOperations(name) ==
    CASE DefaultKey(name) = "control" ->
            <<"Start", "Stop", "Manual Operation", "Auto Operation", "Emergency Stop">>
      [] DefaultKey(name) = "settings" ->
            <<"Configure System", "Set Parameters", "Calibrate", "User Management", "Save Settings">>
      [] OTHER -> <<"System Control Operations">>

getDefaultParameters(name) ==
    CASE DefaultKey(name) = "control" ->
            <<"Operating Mode", "Load Percentage", "Runtime Hours", "Start Counter", "Transfer Status">>
      [] DefaultKey(name) = "settings" ->
            <<"Start Delay", "Transfer Time", "Alarm Delays", "User Access", "Network Settings">>
      [] OTHER -> <<"System Parameters">>

\* extractScreenRelevantContent: the extracted lists, or the defaults when empty
extractScreenRelevantContent(name, doc) ==
    [ relatedEquipment |-> IF doc.equip > 0 THEN Take(EquipTerms, doc.equip)
                           ELSE getDefaultEquipment(name),
      keyOperations    |-> IF doc.ops > 0 THEN Take(OpTerms, doc.ops)
                           ELSE getDefaultOperations(name),
      parameters       |-> IF doc.ops > 0 THEN Take(ParamTerms, doc.ops)
                           ELSE getDefaultParameters(name) ]

screenNamesOf(doc) == Take(OtherScreenNames, doc.others)


(***************************************************************************)
(* The rule-based element generators of the fallback specification         *)
(* (generateDocumentDriven*Elements).  A forEach over a list with a running *)
(* buttonX / buttonY is the closed form in the 0-based index i.            *)
(***************************************************************************)
generateDocumentDrivenHomeElements(content, doc) ==
    LET others == Take(screenNamesOf(doc), 6)
    IN  << El("text", "CONTROL SYSTEM", 50, 120, 500, 30) >>
        \o [k \in 1..Len(others) |->
              El("control_button", Upper(others[k]),
                 50 + ((k - 1) % 3) * 220, 180 + ((k - 1) \div 3) * 80, 200, 60)]
        \o << El("data_table", "System Overview", 50, 350, 700, 150) >>

generateDocumentDrivenControlElements(content, doc) ==
    LET ops == content.keyOperations
        eq  == Take(content.relatedEquipment, 3)
    IN  << El("text", "Manual Control Interface", 50, 120, 400, 30) >>
        \o [k \in 1..Len(ops) |->
              El("control_button", Upper(ops[k]),
                 50 + ((k - 1) % 3) * 160, 180 + ((k - 1) \div 3) * 70, 140, 50)]
        \o [k \in 1..Len(eq) |->
              El("data_display", Upper(eq[k]), 50 + (k - 1) * 200, 280, 180, 40)]
        \o << El("gauge", "System Pressure", 600, 180, 100, 100) >>

generateDocumentDrivenAutoElements(content, doc) ==
    LET ops == Take(content.keyOperations, 4)
    IN  << El("text", "Automatic Operation Mode", 50, 120, 400, 30),
           El("control_button", "START AUTO", 50, 180, 180, 60),
           El("control_button", "STOP AUTO", 250, 180, 180, 60),
           El("progress_bar", "Auto Sequence Progress", 50, 270, 400, 30) >>
        \o [k \in 1..Len(ops) |->
              El("status_indicator", Upper(ops[k]),
                 50 + ((k - 1) % 2) * 300, 320 + ((k - 1) \div 2) * 50, 250, 30)]

generateDocumentDrivenTestElements(content, doc) ==
    << El("text", "System Test & Diagnostics", 50, 120, 400, 30),
       El("control_button", "START TEST", 500, 120, 120, 50),
       El("control_button", "STOP TEST", 640, 120, 120, 50),
       El("progress_bar", "Test Progress", 50, 180, 400, 25),
       El("data_table", "Test Results", 50, 230, 700, 200) >>

generateDocumentDrivenPumpElements(content, doc) ==
    << El("text", "Pump Control & Monitoring", 50, 120, 400, 30),
       El("control_button", "START PUMP", 50, 180, 150, 60),
       El("control_button", "STOP PUMP", 220, 180, 150, 60),
       El("gauge", "Pump Pressure", 400, 160, 100, 100),
       El("gauge", "Flow Rate", 520, 160, 100, 100),
       El("status_indicator", "PUMP STATUS", 650, 180, 120, 40) >>

generateDocumentDrivenPurgeElements(content, doc) ==
    << El("text", "Purging Sequence Control", 50, 120, 400, 30),
       El("control_button", "START PURGE", 50, 180, 150, 60),
       El("control_button", "STOP PURGE", 220, 180, 150, 60),
       El("progress_bar", "Purge Progress", 50, 270, 400, 30),
       El("data_display", "Purge Time Remaining", 500, 180, 200, 40),
       El("status_indicator", "PURGE STATUS", 500, 240, 200, 40) >>

generateDocumentDrivenSettingsElements(content, doc) ==
    LET ps == Take(content.parameters, 4)
    IN  << El("text", "System Configuration", 50, 120, 400, 30),
           El("control_button", "SAVE CONFIG", 50, 180, 120, 50),
           El("control_button", "LOAD CONFIG", 190, 180, 120, 50),
           El("control_button", "RESET CONFIG", 330, 180, 120, 50) >>
        \o [k \in 1..Len(ps) |->
              El("value_input", Upper(ps[k]),
                 50 + ((k - 1) % 2) * 300, 250 + ((k - 1) \div 2) * 60, 250, 40)]

generateDocumentDrivenAlarmElements(content, doc) ==
    << El("text", "System Alarms & Faults", 50, 120, 400, 30),
       El("control_button", "ACK ALL", 500, 120, 100, 40),
       El("control_button", "CLEAR ALL", 620, 120, 100, 40),
       El("data_table", "Active Alarms", 20, 180, 760, 280) >>

generateDocumentDrivenTrackingElements(content, doc) ==
    << El("text", "System Performance Tracking", 50, 120, 400, 30),
       El("data_table", "Performance Data", 20, 180, 760, 300) >>

generateDocumentDrivenUserElements(content, doc) ==
    << El("text", "User Access Management", 50, 120, 400, 30),
       El("control_button", "LOGIN", 50, 180, 100, 50),
       El("control_button", "LOGOUT", 170, 180, 100, 50),
       El("control_button", "CHANGE PASSWORD", 290, 180, 150, 50),
       El("data_table", "User List", 50, 250, 700, 200) >>

generateDocumentDrivenGenericElements(content, doc, name) ==
    LET ops == Take(content.keyOperations, 6)
    IN  << El("text", name, 50, 120, 400, 30) >>
        \o [k \in 1..Len(ops) |->
              El("control_button", Upper(ops[k]),
                 50 + ((k - 1) % 3) * 170, 180 + ((k - 1) \div 3) * 70, 150, 50)]
        \o << El("data_table", "System Data", 20, 300, 760, 200) >>

\* the screen-name category the fallback distinguishes, in the code's order
Category(name) ==
    IF Includes(name, "home") \/ Includes(name, "main") THEN "home"
    ELSE IF Includes(name, "manual") \/ Includes(name, "control") THEN "control"
    ELSE IF Includes(name, "auto") \/ Includes(name, "automatic") THEN "auto"
    ELSE IF Includes(name, "test") \/ Includes(name, "diagnostic") THEN "test"
    ELSE IF Includes(name, "pump") \/ Includes(name, "pumpback") THEN "pump"
    ELSE IF Includes(name, "purge") \/ Includes(name, "purging") THEN "purge"
    ELSE IF Includes(name, "settings") \/ Includes(name, "config") THEN "settings"
    ELSE IF Includes(name, "alarm") \/ Includes(name, "alert") THEN "alarm"
    ELSE IF Includes(name, "time") \/ Includes(name, "tracking") THEN "tracking"
    ELSE IF Includes(name, "user") \/ Includes(name, "management") THEN "user"
    ELSE "generic"

\* generateAdaptiveElements: header title, status indicator, category elements
generateAdaptiveElements(name, doc) ==
    LET content == extractScreenRelevantContent(name, doc)
        cat     == Category(name)
    IN  << El("header_title", name, 20, 25, 400, 30),
           El("status_indicator", "SYSTEM READY", 600, 25, 140, 30) >>
        \o ( CASE cat = "home"     -> generateDocumentDrivenHomeElements(content, doc)
               [] cat = "control"  -> generateDocumentDrivenControlElements(content, doc)
               [] cat = "auto"     -> generateDocumentDrivenAutoElements(content, doc)
               [] cat = "test"     -> generateDocumentDrivenTestElements(content, doc)
               [] cat = "pump"     -> generateDocumentDrivenPumpElements(content, doc)
               [] cat = "purge"    -> generateDocumentDrivenPurgeElements(content, doc)
               [] cat = "settings" -> generateDocumentDrivenSettingsElements(content, doc)
               [] cat = "alarm"    -> generateDocumentDrivenAlarmElements(content, doc)
               [] cat = "tracking" -> generateDocumentDrivenTrackingElements(content, doc)
               [] cat = "user"     -> generateDocumentDrivenUserElements(content, doc)
               [] OTHER            -> generateDocumentDrivenGenericElements(content, doc, name) )

\* the top-level fields a specification carries besides screenTitle and elements
AllSpecFields ==
    {"screenPurpose", "navigation", "layout", "colorScheme",
     "functionalDescription", "recommendations"}

\* generateFallbackSpec: baseSpec has screenTitle, layout, colorScheme, elements
generateFallbackSpec(name, doc) ==
    [ screenTitle |-> name,
      fields      |-> {"layout", "colorScheme"},
      elements    |-> generateAdaptiveElements(name, doc) ]

(***************************************************************************)
(* The model-based path: validateAndEnhanceSpec and its helpers.           *)
(***************************************************************************)
ElementTypes ==
    << "control_button", "status_indicator", "data_display", "value_input",
       "gauge", "progress_bar", "data_table", "alarm_indicator" >>

\* generateElementLabel, for a session whose document yields no terms
\* (availableTerms is empty, so every case takes its fixed list)
generateElementLabel(type, i) ==
    CASE type = "control_button"   -> <<"START", "STOP", "RESET", "CONFIRM">>[(i % 4) + 1]
      [] type = "status_indicator" -> <<"SYSTEM STATUS", "READY", "ACTIVE", "NORMAL">>[(i % 4) + 1]
      [] type = "data_display"     -> <<"TEMPERATURE", "PRESSURE", "FLOW RATE", "LEVEL">>[(i % 4) + 1]
      [] type = "value_input"      -> <<"SET POINT", "TARGET VALUE", "THRESHOLD", "LIMIT">>[(i % 4) + 1]
      [] type = "gauge"            -> <<"PRESSURE GAUGE", "TEMPERATURE GAUGE", "FLOW GAUGE", "LEVEL GAUGE">>[(i % 4) + 1]
      [] type = "progress_bar"     -> <<"OPERATION PROGRESS", "TEST PROGRESS", "STARTUP PROGRESS", "PROCESS PROGRESS">>[(i % 4) + 1]
      [] type = "alarm_indicator"  -> <<"SYSTEM ALARM", "PRESSURE ALARM", "TEMPERATURE ALARM", "FLOW ALARM">>[(i % 4) + 1]
      [] type = "data_table"       -> "SYSTEM DATA"
      [] OTHER                     -> "ELEMENT"

\* generateAdditionalElements: count elements, i = 0 .. count-1
generateAdditionalElements(count) ==
    [k \in 1..Max(count, 0) |->
        LET i    == k - 1
            type == ElementTypes[(i % Len(ElementTypes)) + 1]
        IN  El(type, generateElementLabel(type, i),
               50 + (i % 3) * 250,
               200 + (i \div 3) * 100,
               IF type = "data_table" THEN 300
               ELSE IF type = "gauge" THEN 80
               ELSE IF type = "progress_bar" THEN 200 ELSE 120,
               IF type = "data_table" THEN 80
               ELSE IF type = "gauge" THEN 80
               ELSE IF type = "progress_bar" THEN 25 ELSE 40)]

\* JavaScript's  pos.f || d  on a numeric or missing field
OrDefault(pos, f, d) == IF f \in DOMAIN pos /\ pos[f] # 0 THEN pos[f] ELSE d

\* a position object without fields ({}), which is also what  element.position || {}
\* gives for an element without a position
NoPosition == [f \in {} |-> 0]

\* the value JavaScript reads from a property that is not there
Undefined == "undefined"

\* {...element}: an object element as it is; a primitive array item (a number,
\* a string) spreads to an object without type, label or position
Spread(e) ==
    IF e.t = "obj" THEN e
    ELSE [t |-> "obj", type |-> Undefined, label |-> Undefined, position |-> NoPosition]

RECURSIVE ValidatedAt(_, _)
\* currentY before element i (1-based): 120, then y + height + 10 of element i-1
CurrentYAt(elements, i) ==
    IF i = 1 THEN 120
    ELSE LET p == ValidatedAt(elements, i - 1).position
         IN  p.y + p.height + 10

\* the body of validateElementPositions' forEach for element i (index i-1)
ValidatedAt(elements, i) ==
    LET e   == Spread(elements[i])
        pos == e.position
    IN  [e EXCEPT !.position =
            [ x      |-> Max(20, OrDefault(pos, "x", 50 + ((i - 1) % 3) * 200)),
              y      |-> Max(120, OrDefault(pos, "y", CurrentYAt(elements, i))),
              width  |-> Min(400, Max(80, OrDefault(pos, "width", 150))),
              height |-> Max(30, OrDefault(pos, "height", 40)) ]]

\* validateElementPositions; a null item makes  element.position  throw
validateElementPositionsThrows(elements) == \E i \in DOMAIN elements : elements[i] = NullElem

\* a validation whose width has no upper limit
validateElementPositionsNoWidthLimit(elements) ==
    [i \in 1..Len(elements) |->
        [ValidatedAt(elements, i) EXCEPT !.position.width =
            Max(80, OrDefault(Spread(elements[i]).position, "width", 150))]]

validateElementPositions(elements) ==
    [i \in 1..Len(elements) |-> ValidatedAt(elements, i)]

\* ensureEssentialElements: a title in front, a status indicator at the end
HasTitle(elements) ==
    \E i \in DOMAIN elements :
        \/ elements[i].type = "header_title"
        \/ elements[i].type = "text" /\ elements[i].position.y < 100

HasStatus(elements) == \E i \in DOMAIN elements : elements[i].type = "status_indicator"

\* a pass that returns the elements as they are
ensureEssentialElementsUnchanged(elements, name) == elements

ensureEssentialElements(elements, name) ==
    (IF HasTitle(elements) THEN <<>> ELSE << El("text", name, 20, 25, 400, 30) >>)
    \o elements
    \o (IF HasStatus(elements) THEN <<>>
        ELSE << El("status_indicator", "SYSTEM READY", 600, 25, 140, 30) >>)

(***************************************************************************)
(* The parsed JSON of the model's reply to the screen-specification        *)
(* prompt:                                                                 *)
(*   [t |-> "null"]                       JSON null                        *)
(*   [t |-> "prim"]                       a number, string, boolean, array *)
(*   [t |-> "obj", title, fields, elements]  an object, where              *)
(*      title    is its screenTitle or Undefined,                          *)
(*      fields   are the top-level fields of AllSpecFields it carries,     *)
(*      elements is [t |-> "absent"] (missing or falsy),                   *)
(*                  [t |-> "nonarray"] (a truthy value that is no array),  *)
(*                  [t |-> "arr", items |-> <<...>>].                      *)
(***************************************************************************)
\* spec.elements || []  and the padding of validateAndEnhanceSpec
\* a padding that keeps no more than the minimum number of elements
PaddedElementsCapped(items) ==
    IF Len(items) < MinElements
    THEN items \o generateAdditionalElements(PadTarget - Len(items))
    ELSE Take(items, MinElements)

PaddedElements(items) ==
    IF Len(items) < MinElements
    THEN items \o generateAdditionalElements(PadTarget - Len(items))
    ELSE items

\* validateAndEnhanceSpec throws: on null (spec.screenTitle), on elements that
\* have no forEach, on a null item
validateAndEnhanceSpecThrows(spec) ==
    \/ spec.t = "null"
    \/ /\ spec.t = "obj"
       /\ \/ spec.elements.t = "nonarray"
          \/ /\ spec.elements.t = "arr"
             /\ validateElementPositionsThrows(PaddedElements(spec.elements.items))

validateAndEnhanceSpec(spec, name) ==
    LET items == IF spec.t = "obj" /\ spec.elements.t = "arr"
                 THEN spec.elements.items ELSE <<>>
    IN  [ screenTitle |-> IF spec.t = "obj" /\ spec.title # Undefined
                          THEN spec.title ELSE name,
          fields      |-> AllSpecFields,
          elements    |-> ensureEssentialElements(
                              validateElementPositions(PaddedElements(items)), name) ]

(***************************************************************************)
(* The text of a model reply, as the sequence of its parts:                *)
(*   "F"  a code fence ```            "L"  the language tag json           *)
(*   "T"  prose without braces        "J"  the text of one JSON value      *)
(*   "B"  a malformed JSON object text ({ ... } that JSON.parse rejects)   *)
(* White space between the parts is not modelled: JSON.parse, trim and the *)
(* \s* of the patterns skip it.  JSON.parse accepts exactly the texts that *)
(* are one JSON value.                                                     *)
(***************************************************************************)
JSONparseOk(tokens) == tokens = << "J" >>

RECURSIVE CleanedUpTo(_, _)
\* the first n parts of the text without its fences and fence tags
CleanedUpTo(tokens, n) ==
    IF n = 0 THEN <<>>
    ELSE CleanedUpTo(tokens, n - 1)
         \o (IF /\ tokens[n] # "F"
                /\ ~(tokens[n] = "L" /\ n > 1 /\ tokens[n - 1] = "F")
             THEN << tokens[n] >> ELSE <<>>)

\* aiResponse.replace(/```json\s*/g, '').replace(/```\s*/g, '').trim()
CleanedResponse(tokens) == CleanedUpTo(tokens, Len(tokens))

(***************************************************************************)
(* Replies to the screen-specification prompt that the model draws.        *)
(***************************************************************************)
mButton == El("control_button", "START", 50, 200, 120, 40)
mFar    == El("gauge", "PRESSURE", 5000, 7000, 900, 900)
mTiny   == El("text", "Title", -10, 25, 10, 5)
mBare   == [t |-> "obj", type |-> "status_indicator", label |-> "RUN",
            position |-> NoPosition]

ModelElems == {mButton, mFar, mTiny, mBare, NullElem}

\* lists of up to MaxModelElems items: one item repeated, or alternating with
\* the well-formed button
ModelElemLists ==
    { [i \in 1..n |-> IF i % 2 = 1 THEN p[1] ELSE p[2]] :
          n \in 0..MaxModelElems,
          p \in { << a, a >> : a \in ModelElems }
                 \cup { << a, mButton >> : a \in ModelElems }
                 \cup { << mButton, a >> : a \in ModelElems } }

ModelElementsValues ==
    { [t |-> "absent", items |-> <<>>], [t |-> "nonarray", items |-> <<>>] }
    \cup { [t |-> "arr", items |-> l] : l \in ModelElemLists }

NoJson == [t |-> "null", title |-> Undefined, fields |-> {},
           elements |-> [t |-> "absent", items |-> <<>>]]

GenValues ==
    { NoJson, [NoJson EXCEPT !.t = "prim"] }
    \cup { [t |-> "obj", title |-> v.title, fields |-> v.fields, elements |-> e] :
              v \in { [title |-> Undefined, fields |-> {}],
                      [title |-> "Model Title", fields |-> AllSpecFields] },
              e \in ModelElementsValues }

GenTexts == { << "J" >>, << "F", "L", "J", "F" >>, << "T", "J", "T" >> }
GenBadTexts == { << >>, << "T" >>, << "B" >> }

\* what the chat-completions call does: it throws, it resolves with a message
\* whose content is null, or it resolves with a text
GenResponses ==
    { [kind |-> "throws", tokens |-> <<>>, value |-> NoJson],
      [kind |-> "nullcontent", tokens |-> <<>>, value |-> NoJson] }
    \cup { [kind |-> "text", tokens |-> tk, value |-> NoJson] : tk \in GenBadTexts }
    \cup { [kind |-> "text", tokens |-> tk, value |-> v] : tk \in GenTexts, v \in GenValues }

(***************************************************************************)
(* generateAIContextualSpec after the model call settled, for a screen     *)
(* whose prompt could be built: the validated model specification, or the  *)
(* fallback on any throw inside the try block.                             *)
(***************************************************************************)
ModelSpecUsable(resp) ==
    /\ resp.kind = "text"
    /\ JSONparseOk(CleanedResponse(resp.tokens))
    /\ ~validateAndEnhanceSpecThrows(resp.value)

generateAIContextualSpec(name, doc, resp) ==
    IF ModelSpecUsable(resp)
    THEN [path |-> "model", spec |-> validateAndEnhanceSpec(resp.value, name)]
    ELSE [path |-> "fallback", spec |-> generateFallbackSpec(name, doc)]

\* extractScreenRelevantContent builds new RegExp from the screen name: both
\* createScreenSpecPrompt and generateFallbackSpec throw when it is no pattern
generateFallbackSpecThrows(name) == ~RegexOk(name)

(***************************************************************************)
(* State: one generateScreenSpecification invocation, then the other      *)
(* parts' variables.                                                       *)
(***************************************************************************)
VARIABLES
    gpc,      \* "idle", "awaiting" (the model call), "returned", "raised"
    gscreen,  \* the screen's name
    gdoc,     \* the document context
    gresp,    \* what the model call did
    gpath,    \* "none", "model", "fallback"
    gresult,  \* the specification returned
    gcalls    \* model calls made by the invocation

genVars == << gpc, gscreen, gdoc, gresp, gpath, gresult, gcalls >>

\* one generateWorkflowDiagram invocation
VARIABLES
    wpc,        \* "idle", "identifying", "composing", "returned", "raised"
    widresp,    \* what the identification call did
    wident,     \* "none", "ok", "failed": how analyzeStructuredFDS ended
    wanalysis,  \* sessionData.screenAnalysis
    wscreens,   \* the screen list given to the composer
    wresp,      \* what the composer's model call did
    wpath,      \* "none", "template", "model"
    wdiagram,   \* the workflow diagram returned
    widcalls,   \* model calls made by the identifier
    wfcalls     \* model calls made by the composer

wfVars == << wpc, widresp, wident, wanalysis, wscreens, wresp, wpath, wdiagram,
             widcalls, wfcalls >>

\* the server and its requests
VARIABLES
    progressSessions,      \* session id -> the session's screenAnalysis
    agentScreenAnalysis,   \* hmiAgent.sessionData.screenAnalysis
    agentGeneratedScreens, \* hmiAgent.sessionData.generatedScreens
    rpc,        \* per request: "idle", "specs", "combined", "comprehensive", "done"
    rscreens,   \* per request: the local const screens
    rspecs,     \* per request: the local screenSpecs
    rresponse,  \* per request: the response sent
    sessionDocument,  \* session id -> the text of the document uploaded
    agentFdsContent,  \* hmiAgent.sessionData.fdsContent, which no route writes
    rcontext    \* per request: the documentContext of generateScreenImages

srvVars == << progressSessions, agentScreenAnalysis, agentGeneratedScreens,
              rpc, rscreens, rspecs, rresponse, sessionDocument,
              agentFdsContent, rcontext >>

\* document intake
VARIABLES
    dpc,        \* "off", "start", "read", "segmented", "done", "raised"
    dfile,      \* the uploaded file: extension, state, what mammoth does
    dtext,      \* the text the file holds
    dcontent,   \* what readDocument returned
    dsections,  \* what createBasicStructure returned
    dkeywords   \* extractSystemKeywords(...).systemType

docVars == << dpc, dfile, dtext, dcontent, dsections, dkeywords >>

\* one createScreenImage invocation
VARIABLES
    ipc,        \* "off", "start", "clamped", "returned"
    iinput,     \* the screenSpec as passed in
    ispec,      \* the screenSpec object, which the clamping writes to
    icanvas     \* the element boxes drawn, in drawing order

imgVars == << ipc, iinput, ispec, icanvas >>

\* one generateScreenImages invocation
VARIABLES
    bpc,        \* "off", "start", "specs", "combined", "comprehensive",
                \* "returned", "raised"
    bcanvas,    \* whether the canvas module was loaded (createCanvas)
    banalysis,  \* sessionData.screenAnalysis when the invocation starts
    boutcomes,  \* per screen, how its generation and drawing ended
    bspecs,     \* the local screenSpecs
    btiles,     \* the tiles drawn on the combined layout
    blegacy,    \* the tiles drawn on the comprehensive layout
    bsummary    \* the summary returned

batchVars == << bpc, bcanvas, banalysis, boutcomes, bspecs, btiles, blegacy,
                bsummary >>

\* one POST /api/generate-hmi request
VARIABLES
    hpc,        \* "off", "workflow", "screens", "responded"
    hresponse   \* the response sent

hmiVars == << hpc, hresponse >>

\* the uploads of POST /api/generate-workflow and their session ids
VARIABLES
    now,             \* Date.now()
    upc,             \* per upload: "idle", "working", "answered", "failed"
    usession,        \* per upload: the number of its sessionId
    uploadSessions,  \* progressSessions: per sessionId the record stored
    uresponse        \* per upload: the sessionId sent back, 0 when none

upVars == << now, upc, usession, uploadSessions, uresponse >>

\* the progress streams of GET /api/progress/:sessionId
VARIABLES
    sseClients,   \* the registry: the keys it holds and each key's set
    cstate,       \* per client: "new", "open", "closed"
    csession,     \* per client: the session of its URL
    cwrites,      \* per client: the updates written to it
    sseMissed,    \* the clients an update of their session was not written to
    sseSessions   \* the sessions progressSessions has an entry for

sseVars == << sseClients, cstate, csession, cwrites, sseMissed, sseSessions >>

\* one drawCombinedLayout invocation
VARIABLES
    lpc,       \* "off", "start", "tiles", "returned"
    lscreens,  \* screens.length
    ltiles     \* the boxes of the tiles drawn so far

layoutVars == << lpc, lscreens, ltiles >>

laterVars == << upVars, sseVars, layoutVars >>

extVars == << imgVars, batchVars, hmiVars, laterVars >>

notImgVars == << batchVars, hmiVars, laterVars >>

notBatchVars == << imgVars, hmiVars, laterVars >>

earlierVars == << imgVars, batchVars, hmiVars >>

coreVars == << genVars, wfVars, srvVars, docVars >>

NoSpec == [screenTitle |-> Undefined, fields |-> {}, elements |-> <<>>]
NoResp == [kind |-> "none", tokens |-> <<>>, value |-> NoJson]
NoDoc  == [ops |-> 0, equip |-> 0, others |-> 0]

GenInit ==
    /\ gpc = "idle"
    /\ gscreen = "Home Screen"
    /\ gdoc = NoDoc
    /\ gresp = NoResp
    /\ gpath = "none"
    /\ gresult = NoSpec
    /\ gcalls = 0

\* generateScreenSpecification up to its await: getDocumentContext, then
\* generateAIContextualSpec builds the prompt; when that throws, the catch
\* block calls generateFallbackSpec, which throws the same error to the caller
GenStart ==
    /\ gpc = "idle"
    /\ \E name \in ScreenNames, doc \in Docs :
          /\ gscreen' = name
          /\ gdoc' = doc
          /\ IF generateFallbackSpecThrows(name)
             THEN gpc' = "raised" /\ gcalls' = 0
             ELSE gpc' = "awaiting" /\ gcalls' = 1
    /\ gresp' = NoResp
    /\ gpath' = "none"
    /\ gresult' = NoSpec
    /\ UNCHANGED << wfVars, srvVars, docVars, extVars >>

\* the model call settles and generateAIContextualSpec runs to its return
GenModelSettles ==
    /\ gpc = "awaiting"
    /\ \E resp \in GenResponses :
          LET out == generateAIContextualSpec(gscreen, gdoc, resp)
          IN  /\ gresp' = resp
              /\ gpath' = out.path
              /\ gresult' = out.spec
    /\ gpc' = "returned"
    /\ UNCHANGED << gscreen, gdoc, gcalls >>
    /\ UNCHANGED << wfVars, srvVars, docVars, extVars >>

GenNext == GenStart \/ GenModelSettles

(***************************************************************************)
(* The workflow pipeline: generateWorkflowDiagram reads the document, asks *)
(* the model for the screen list (analyzeWithGPT4) and hands the list to   *)
(* the composer (generateWorkflowFromScreens).  A screen of the list is    *)
(* modelled by its screenName.                                             *)
(***************************************************************************)
MaxScreens == 5

TemplateThreshold == 3
MaxTemplateTransitions == 6

WfNamePool ==
    << "Home Screen", "Pump Screen", "Alarm Screen",
       "Settings Screen", "Test Screen", "User Screen" >>

\* a name the document's screen list never holds
GhostName == "Ghost Screen"

RotList(r, n) ==
    [i \in 1..n |-> WfNamePool[((r + i - 1) % Len(WfNamePool)) + 1]]

WithBadName(s) == [s EXCEPT ![Len(s)] = "Pump (A"]

IdScreenLists ==
    { RotList(r, n) : r \in 0..(Len(WfNamePool) - 1), n \in 0..MaxScreens }
    \cup { WithBadName(RotList(r, n)) :
               r \in 0..(Len(WfNamePool) - 1), n \in 1..MaxScreens }

\* JSON values of the identification reply: null, an object without a
\* screenList, an object with one
IdValues ==
    { [k |-> "null", hasList |-> FALSE, screenList |-> << >>],
      [k |-> "obj", hasList |-> FALSE, screenList |-> << >>] }
    \cup { [k |-> "obj", hasList |-> TRUE, screenList |-> l] : l \in IdScreenLists }

NoAnalysis == [k |-> "none", hasList |-> FALSE, screenList |-> << >>]

IdTexts ==
    { << "J" >>, << "F", "L", "J", "F" >>, << "T", "F", "L", "J", "F", "T" >>,
      << "F", "J", "F" >>, << "T", "J", "T" >> }
IdBadTexts == { << >>, << "T" >>, << "B" >>, << "F", "L", "B", "F" >> }

IdResponses ==
    { [kind |-> "throws", tokens |-> << >>, value |-> NoAnalysis],
      [kind |-> "nullcontent", tokens |-> << >>, value |-> NoAnalysis] }
    \cup { [kind |-> "text", tokens |-> t, value |-> v] : t \in IdTexts, v \in IdValues }
    \cup { [kind |-> "text", tokens |-> t, value |-> NoAnalysis] : t \in IdBadTexts }

\* response.match(/```json\s*([\s\S]*?)```/i): the text between the first
\* fence carrying the json tag and the next fence; << "none" >> without a match
JsonFenceMatch(tokens) ==
    LET opens  == { i \in 1..(Len(tokens) - 1) :
                        tokens[i] = "F" /\ tokens[i + 1] = "L" }
        closes(i) == { j \in (i + 2)..Len(tokens) : tokens[j] = "F" }
        ok     == { i \in opens : closes(i) # {} }
    IN  IF ok = {} THEN << "none" >>
        ELSE LET i == CHOOSE x \in ok : \A y \in ok : x <= y
                 j == CHOOSE x \in closes(i) : \A y \in closes(i) : x <= y
             IN  SubSeq(tokens, i + 2, j - 1)

\* analyzeWithGPT4 after its call: whether it returns (it rethrows every error)
analyzeWithGPT4Ok(resp) ==
    /\ resp.kind = "text"
    /\ \/ JSONparseOk(resp.tokens)
       \/ JSONparseOk(JsonFenceMatch(resp.tokens))
    /\ resp.value.k = "obj"

\* an identifier that answers a failed call with an empty screen list
analyzeWithGPT4EmptyOnFailure(resp) ==
    IF analyzeWithGPT4Ok(resp)
    THEN [ok |-> TRUE, analysis |-> resp.value]
    ELSE [ok |-> TRUE,
          analysis |-> [k |-> "obj", hasList |-> TRUE, screenList |-> << >>]]

\* analyzeWithGPT4 after its call: the analysis it returns, or the throw
analyzeWithGPT4(resp) ==
    IF analyzeWithGPT4Ok(resp)
    THEN [ok |-> TRUE, analysis |-> resp.value]
    ELSE [ok |-> FALSE, analysis |-> NoAnalysis]

\* jsonString.substring(indexOf('{'), lastIndexOf('}') + 1); prose holds no
\* brace, a fence holds none either
BraceSubstring(tokens) ==
    LET braces == { i \in 1..Len(tokens) : tokens[i] \in { "J", "B" } }
    IN  IF braces = {} THEN << "none" >>
        ELSE SubSeq(tokens,
                    CHOOSE x \in braces : \A y \in braces : x <= y,
                    CHOOSE x \in braces : \A y \in braces : x >= y)

\* ---- the composer's deterministic template --------------------------------
\* screens.find(s => s.screenName.toLowerCase().includes('home')) || screens[0]
\* the template string `Navigate from ${from} to ${to}`
Navigate(from, to) == << "Navigate from", from, "to", to >>

homeScreenOf(screens) ==
    LET homes == { i \in 1..Len(screens) : Includes(screens[i], "home") }
    IN  IF homes = {} THEN screens[1]
        ELSE screens[CHOOSE x \in homes : \A y \in homes : x <= y]

\* generateNavigation(screen, allScreens): the navigation that the template
\* gives a screen
generateNavigation(screen, allScreens) ==
    [from |-> << "Navigation menu", "System startup" >>,
     to |-> Take(SelectSeq(allScreens, LAMBDA s : s # screen), 3),
     triggers |-> << "User selection", "System event" >>]

generateConciseNavigationFlow(screens) ==
    LET home   == homeScreenOf(screens)
        others == SelectSeq(screens, LAMBDA s : s # home)
        shown  == Take(others, MaxTemplateTransitions)
    IN  [i \in 1..Len(shown) |->
            [from |-> home, to |-> shown[i], trigger |-> "User selection",
             description |-> Navigate(home, shown[i])]]

\* generateConcisePurpose reaches new RegExp(screenName) for every screen, and
\* generateConciseNavigationFlow reads screens[0].screenName
generateTemplateBasedWorkflowThrows(screens) ==
    \/ \E i \in 1..Len(screens) : ~RegexOk(screens[i])
    \/ Len(screens) = 0

generateTemplateBasedWorkflow(screens) ==
    [totalScreens      |-> Len(screens),
     screenAnalysis    |-> screens,
     screenTransitions |-> generateConciseNavigationFlow(screens)]

NoDiagram == [totalScreens |-> 0, screenAnalysis |-> << >>, screenTransitions |-> << >>]

\* ---- what the composer's model call can return ----------------------------
WfEntry(name, complete) == [t |-> "obj", screenName |-> name, complete |-> complete]

CompleteEntries(names) == [i \in 1..Len(names) |-> WfEntry(names[i], TRUE)]

WfEntryLists ==
    { CompleteEntries(RotList(0, m)) : m \in 0..MaxScreens }
    \cup { [CompleteEntries(RotList(0, MaxScreens)) EXCEPT ![MaxScreens] = e] :
               e \in { WfEntry("User Screen", FALSE), WfEntry("Pump (A", FALSE), NullElem } }

\* a transition object; a property it lacks is Undefined, and a description
\* is a sequence of pieces of text, empty when it is missing
TrFull(from, to, trigger, description) ==
    [t |-> "obj", from |-> from, to |-> to, trigger |-> trigger,
     description |-> description]
TrObj(from, to) == TrFull(from, to, Undefined, << >>)
TrStr(parts)    == [t |-> "str", parts |-> parts]

WfTransitionLists ==
    { << >>,
      << TrObj("Pump Screen", "Alarm Screen") >>,
      << TrObj("Pump Screen", GhostName) >>,
      << TrStr(<< "Alarm Screen", "Settings Screen" >>) >>,
      << TrStr(<< GhostName, "Alarm Screen" >>) >>,
      << TrStr(<< "Pump Screen" >>), NullElem, TrObj("Settings Screen", "Test Screen") >>,
      << TrFull("Pump Screen", "Alarm Screen", "Alarm button", << "Open the alarms" >>),
         TrFull(Undefined, Undefined, Undefined, << >>),
         TrStr(<< "", "Alarm Screen" >>) >> }

WfOverviews ==
    { [present |-> FALSE, totalScreens |-> 0] }
    \cup { [present |-> TRUE, totalScreens |-> k] : k \in (MaxScreens - 1)..MaxScreens }

WfValues ==
    [ systemOverview : WfOverviews,
      screenAnalysis :
          { [kind |-> "absent", items |-> << >>], [kind |-> "nonarray", items |-> << >>] }
          \cup { [kind |-> "arr", items |-> l] : l \in WfEntryLists },
      navigationFlow :
          { [kind |-> k, items |-> << >>] : k \in { "absent", "notransitions", "nonarray" } }
          \cup { [kind |-> "arr", items |-> l] : l \in WfTransitionLists } ]

NoWorkflowJson ==
    [systemOverview |-> [present |-> FALSE, totalScreens |-> 0],
     screenAnalysis |-> [kind |-> "absent", items |-> << >>],
     navigationFlow |-> [kind |-> "absent", items |-> << >>]]

WfTexts    == { << "J" >>, << "T", "J", "T" >>, << "F", "L", "J", "F" >> }
WfBadTexts == { << >>, << "T" >>, << "B" >>, << "J", "T", "J" >> }

WfResponses ==
    { [kind |-> "throws", tokens |-> << >>, value |-> NoWorkflowJson],
      [kind |-> "nullcontent", tokens |-> << >>, value |-> NoWorkflowJson] }
    \cup { [kind |-> "text", tokens |-> t, value |-> v] : t \in WfTexts, v \in WfValues }
    \cup { [kind |-> "text", tokens |-> t, value |-> NoWorkflowJson] : t \in WfBadTexts }

NoWfResp == [kind |-> "none", tokens |-> << >>, value |-> NoWorkflowJson]

\* ---- enhanceWithTemplateData ----------------------------------------------
enhanceWithTemplateDataThrows(value, screens) ==
    \/ /\ value.screenAnalysis.kind = "arr"
       /\ \E i \in 1..Len(value.screenAnalysis.items) :
             LET e == value.screenAnalysis.items[i]
             IN  e.t = "null" \/ (~e.complete /\ ~RegexOk(e.screenName))
    \/ /\ value.screenAnalysis.kind # "arr"
       /\ \E i \in 1..Len(screens) : ~RegexOk(screens[i])
    \/ value.navigationFlow.kind = "nonarray"

\* screenTransitions.map(...).filter(Boolean): a string is split at its first
\* arrow, an object is kept with its own from and to, anything else is dropped
SanitizedTransitions(items) ==
    LET kept == SelectSeq(items,
                    LAMBDA tr : tr.t = "obj" \/ (tr.t = "str" /\ Len(tr.parts) >= 2))
    IN  [i \in 1..Len(kept) |->
            IF kept[i].t = "str"
            THEN [from |-> kept[i].parts[1], to |-> kept[i].parts[2],
                  trigger |-> "User selection",
                  description |-> Navigate(kept[i].parts[1], kept[i].parts[2])]
            ELSE [from |-> kept[i].from, to |-> kept[i].to,
                  trigger |-> IF kept[i].trigger = Undefined
                              THEN "User selection" ELSE kept[i].trigger,
                  description |-> IF kept[i].description = << >>
                                  THEN Navigate(kept[i].from, kept[i].to)
                                  ELSE kept[i].description]]

enhanceWithTemplateData(value, screens) ==
    [totalScreens |->
         IF value.systemOverview.present
         THEN value.systemOverview.totalScreens ELSE Len(screens),
     screenAnalysis |->
         IF value.screenAnalysis.kind = "arr"
         THEN [i \in 1..Len(value.screenAnalysis.items) |->
                   value.screenAnalysis.items[i].screenName]
         ELSE screens,
     screenTransitions |->
         IF value.navigationFlow.kind = "arr"
         THEN SanitizedTransitions(value.navigationFlow.items)
         ELSE generateConciseNavigationFlow(screens)]

\* ---- generateWorkflowFromScreens ------------------------------------------
\* a composer that sends a list of exactly three screens to the model
UseTemplatePathBelowThreshold(screens) == Len(screens) < TemplateThreshold

\* if (screens.length <= 3)
UseTemplatePath(screens) == Len(screens) <= TemplateThreshold

\* the reply gives an object the composer keeps
WorkflowReplyUsable(resp, screens) ==
    /\ resp.kind = "text"
    /\ JSONparseOk(BraceSubstring(resp.tokens))
    /\ ~enhanceWithTemplateDataThrows(resp.value, screens)

\* the composer from the settling of its model call to its return or throw
composeAfterCall(screens, resp) ==
    IF WorkflowReplyUsable(resp, screens)
    THEN [pc |-> "returned", path |-> "model",
          diagram |-> enhanceWithTemplateData(resp.value, screens)]
    ELSE IF generateTemplateBasedWorkflowThrows(screens)
         THEN [pc |-> "raised", path |-> "template", diagram |-> NoDiagram]
         ELSE [pc |-> "returned", path |-> "template",
               diagram |-> generateTemplateBasedWorkflow(screens)]

(***************************************************************************)
(* The steps of one generateWorkflowDiagram invocation.                    *)
(***************************************************************************)

NoIdResp == [kind |-> "none", tokens |-> << >>, value |-> NoAnalysis]

WfInit ==
    /\ wpc = "idle"
    /\ widresp = NoIdResp
    /\ wident = "none"
    /\ wanalysis = NoAnalysis
    /\ wscreens = << >>
    /\ wresp = NoWfResp
    /\ wpath = "none"
    /\ wdiagram = NoDiagram
    /\ widcalls = 0
    /\ wfcalls = 0

\* generateWorkflowDiagram up to the identification call: clearSession, then
\* readDocument, whose readFileSync error is rethrown to the caller
WfStart ==
    /\ wpc = "idle"
    /\ \E readOk \in BOOLEAN :
          IF readOk
          THEN wpc' = "identifying" /\ widcalls' = 1
          ELSE wpc' = "raised" /\ widcalls' = 0
    /\ UNCHANGED << widresp, wident, wanalysis, wscreens, wresp, wpath, wdiagram,
                    wfcalls >>
    /\ UNCHANGED << genVars, srvVars, docVars, extVars >>

\* the identification call settles: analyzeWithGPT4 parses or rethrows; with
\* an analysis, generateWorkflowFromScreens runs up to its own model call,
\* that is to the end on the template path
WfIdentSettles ==
    /\ wpc = "identifying"
    /\ \E resp \in IdResponses :
          /\ widresp' = resp
          /\ IF ~analyzeWithGPT4(resp).ok
             THEN /\ wident' = "failed"
                  /\ wpc' = "raised"
                  /\ UNCHANGED << wanalysis, wscreens, wpath, wdiagram, wfcalls >>
             ELSE /\ wident' = "ok"
                  /\ wanalysis' = analyzeWithGPT4(resp).analysis
                  /\ IF ~analyzeWithGPT4(resp).analysis.hasList
                     THEN \* createCondensedContext: screens.map on undefined
                          /\ wpc' = "raised"
                          /\ UNCHANGED << wscreens, wpath, wdiagram, wfcalls >>
                     ELSE /\ wscreens' = analyzeWithGPT4(resp).analysis.screenList
                          /\ IF UseTemplatePath(analyzeWithGPT4(resp).analysis.screenList)
                             THEN /\ wpath' = "template"
                                  /\ wfcalls' = 0
                                  /\ IF generateTemplateBasedWorkflowThrows(analyzeWithGPT4(resp).analysis.screenList)
                                     THEN wpc' = "raised" /\ wdiagram' = NoDiagram
                                     ELSE /\ wpc' = "returned"
                                          /\ wdiagram' =
                                               generateTemplateBasedWorkflow(analyzeWithGPT4(resp).analysis.screenList)
                             ELSE /\ wpc' = "composing"
                                  /\ wfcalls' = 1
                                  /\ UNCHANGED << wpath, wdiagram >>
    /\ UNCHANGED << wresp, widcalls >>
    /\ UNCHANGED << genVars, srvVars, docVars, extVars >>

\* the composer's model call settles
WfComposeSettles ==
    /\ wpc = "composing"
    /\ \E resp \in WfResponses :
          LET out == composeAfterCall(wscreens, resp)
          IN  /\ wresp' = resp
              /\ wpc' = out.pc
              /\ wpath' = out.path
              /\ wdiagram' = out.diagram
    /\ UNCHANGED << widresp, wident, wanalysis, wscreens, widcalls, wfcalls >>
    /\ UNCHANGED << genVars, srvVars, docVars, extVars >>

WfNext == WfStart \/ WfIdentSettles \/ WfComposeSettles

(***************************************************************************)
(* Document intake: readDocument, the segmenter (createBasicStructure with *)
(* isHeading) and extractSystemKeywords.  A text is the sequence of its    *)
(* lines (content.split('\n')); what the regular expressions and           *)
(* String.prototype.includes find in a line is tabulated for the lines the *)
(* model draws.                                                            *)
(***************************************************************************)
MaxLines == 3

PlaceholderLine == "[Document could not be read: ENOENT, open 'fds.docx']"
RawBytesLine == "PK raw archive bytes"

DocLines ==
    { "", "   ", "1. Pump System", "Alarm Screen", "  the pump starts",
      "generator power supply", "valve opens slowly", "two pumps run" }

\* String.prototype.trim
Trim(line) ==
    CASE line = "   "              -> ""
      [] line = "  the pump starts" -> "the pump starts"
      [] OTHER                     -> line

\* isHeading: some pattern of headingPatterns matches the trimmed line
\* ("1. Pump System": /^\d+\.\s/ and /System$/i; "Alarm Screen": /Screen$/i
\* and the /^(Manual|...|Alarm|...)/i prefix pattern)
isHeading(line) == Trim(line) \in { "1. Pump System", "Alarm Screen" }

\* the whole words of the lower-cased line, each occurring once in it
WordsOf(line) ==
    CASE line = "1. Pump System"         -> { "pump", "system" }
      [] line = "Alarm Screen"           -> { "alarm", "screen" }
      [] line = "  the pump starts"      -> { "the", "pump", "starts" }
      [] line = "generator power supply" -> { "generator", "power", "supply" }
      [] line = "valve opens slowly"     -> { "valve", "opens", "slowly" }
      [] line = "two pumps run"          -> { "two", "pumps", "run" }
      [] line = PlaceholderLine          -> { "document", "could", "not", "be", "read",
                                              "enoent", "open", "fds", "docx" }
      [] line = RawBytesLine             -> { "pk", "raw", "archive", "bytes" }
      [] OTHER                           -> { }

\* lowerContent.includes(key) for the keys of primaryKeywords: a whole word of
\* the text, or a part of one ("pumps" holds "pump")
IncludesKey(text, key) ==
    \E i \in 1..Len(text) :
        \/ key \in WordsOf(text[i])
        \/ key = "pump" /\ "pumps" \in WordsOf(text[i])

\* lowerContent.match(/\bpattern\b/gi).length
MatchCount(text, pattern) ==
    Cardinality({ i \in 1..Len(text) : pattern \in WordsOf(text[i]) })

SystemTypes ==
    << "generator_control", "water_treatment", "gas_analyzer", "motor_control",
       "pump_system", "cylinder_control", "plc_system", "hvac_system",
       "conveyor_system", "valve_control", "power_generation",
       "chemical_processing", "oil_gas_processing", "manufacturing", "packaging",
       "food_beverage" >>

DefaultSystemType == "industrial_control"

systemPatterns(type) ==
    CASE type = "generator_control" ->
            { "generator", "standby", "backup", "power", "diesel", "engine",
              "alternator", "utility", "transfer", "switch" }
      [] type = "water_treatment" ->
            { "water", "treatment", "filtration", "purification", "clarification",
              "chlorination", "disinfection" }
      [] type = "gas_analyzer" ->
            { "gas", "analyzer", "sf6", "concentration", "ppm", "measurement",
              "spectrometer" }
      [] type = "motor_control" ->
            { "motor", "drive", "speed", "torque", "rpm", "inverter", "starter" }
      [] type = "pump_system" ->
            { "pump", "flow", "pressure", "suction", "discharge", "centrifugal",
              "impeller" }
      [] type = "cylinder_control" ->
            { "cylinder", "extend", "retract", "acting", "pneumatic", "hydraulic",
              "actuator" }
      [] type = "plc_system" ->
            { "plc", "logic", "controller", "input", "output", "ladder", "programming" }
      [] type = "hvac_system" ->
            { "hvac", "temperature", "heating", "cooling", "ventilation", "air",
              "conditioning" }
      [] type = "conveyor_system" ->
            { "conveyor", "belt", "transport", "material", "handling", "sorting" }
      [] type = "valve_control" ->
            { "valve", "open", "close", "position", "actuator", "flow", "control" }
      [] type = "power_generation" ->
            { "generator", "turbine", "power", "electrical", "grid", "transmission" }
      [] type = "chemical_processing" ->
            { "chemical", "reactor", "distillation", "separation", "catalyst", "process" }
      [] type = "oil_gas_processing" ->
            { "oil", "gas", "refinery", "crude", "petroleum", "hydrocarbon", "pipeline" }
      [] type = "manufacturing" ->
            { "manufacturing", "production", "assembly", "fabrication", "quality",
              "inspection" }
      [] type = "packaging" ->
            { "packaging", "labeling", "sealing", "filling", "wrapping", "bottling" }
      [] type = "food_beverage" ->
            { "food", "beverage", "pasteurization", "sterilization", "fermentation",
              "mixing" }

primaryKeywords(type) ==
    CASE type = "generator_control" ->
            { "generator", "standby", "backup", "power", "diesel", "engine", "alternator" }
      [] type = "water_treatment" -> { "water", "treatment" }
      [] type = "gas_analyzer"    -> { "gas", "analyzer" }
      [] type = "motor_control"   -> { "motor", "control" }
      [] type = "pump_system"     -> { "pump", "system" }
      [] OTHER                    -> { }

RECURSIVE SumOver(_, _, _)
SumOver(text, patterns, acc) ==
    IF patterns = { } THEN acc
    ELSE LET p == CHOOSE x \in patterns : TRUE
         IN  SumOver(text, patterns \ { p }, acc + MatchCount(text, p))

SignificantScore == 3
PrimaryWeight == 5

\* the score extractSystemKeywords gives a system type
systemTypeScore(text, type) ==
    LET matched == { p \in systemPatterns(type) : MatchCount(text, p) > 0 }
    IN  SumOver(text, matched, 0)
        + (IF Cardinality(matched) >= 2 THEN Cardinality(matched) * 2 ELSE 0)
        + PrimaryWeight
            * Cardinality({ k \in primaryKeywords(type) : IncludesKey(text, k) })

\* a selection that sorts the scores in ascending order
bestMatchAscending(text) ==
    LET scored == { i \in 1..Len(SystemTypes) : systemTypeScore(text, SystemTypes[i]) > 0 }
        low    == { i \in scored :
                      \A j \in scored : systemTypeScore(text, SystemTypes[i])
                                           <= systemTypeScore(text, SystemTypes[j]) }
    IN  SystemTypes[CHOOSE i \in low : \A j \in low : i <= j]

\* Object.entries(systemTypeScores).sort(([,a], [,b]) => b - a)[0]: the stable
\* sort leaves the first type of the catalog with the greatest score in front
bestMatch(text) ==
    LET scored == { i \in 1..Len(SystemTypes) : systemTypeScore(text, SystemTypes[i]) > 0 }
        top    == { i \in scored :
                      \A j \in scored : systemTypeScore(text, SystemTypes[j])
                                           <= systemTypeScore(text, SystemTypes[i]) }
    IN  SystemTypes[CHOOSE i \in top : \A j \in top : i <= j]

\* a keyword extraction without the fallback to the generic type
extractSystemKeywordsNoDefault(text) ==
    LET scored == { i \in 1..Len(SystemTypes) : systemTypeScore(text, SystemTypes[i]) > 0 }
    IN  IF scored # { } /\ systemTypeScore(text, bestMatch(text)) >= SignificantScore
        THEN << bestMatch(text) >>
        ELSE << >>

\* extractSystemKeywords(content).systemType
extractSystemKeywords(text) ==
    LET scored == { i \in 1..Len(SystemTypes) : systemTypeScore(text, SystemTypes[i]) > 0 }
    IN  IF scored # { } /\ systemTypeScore(text, bestMatch(text)) >= SignificantScore
        THEN << bestMatch(text) >>
        ELSE << DefaultSystemType >>

\* ---- readDocument ---------------------------------------------------------
\* mammoth is asked for .docx files only, and fails on a missing file
DocFiles ==
    { [ext |-> e, state |-> st, mammoth |-> "ok"] :
          e \in { ".txt", ".pdf" }, st \in { "readable", "missing" } }
    \cup { [ext |-> ".docx", state |-> "readable", mammoth |-> m] : m \in { "ok", "fails" } }
    \cup { [ext |-> ".docx", state |-> "missing", mammoth |-> "fails"] }

DocTexts == UNION { [1..n -> DocLines] : n \in 0..MaxLines }

\* what readDocument does with a file holding the text: the extracted text,
\* the raw bytes, the placeholder, or the error of fs.readFileSync
readDocument(file, text) ==
    IF file.ext = ".docx"
    THEN IF file.state = "readable" /\ file.mammoth = "ok"
         THEN [kind |-> "text", lines |-> text]
         ELSE IF file.state = "readable"
              THEN [kind |-> "raw", lines |-> << RawBytesLine >>]
              ELSE [kind |-> "placeholder", lines |-> << PlaceholderLine >>]
    ELSE IF file.state = "readable"
         THEN [kind |-> "text", lines |-> text]
         ELSE [kind |-> "throws", lines |-> << >>]

\* ---- createBasicStructure -------------------------------------------------
\* content.split('\n').filter(line => line.trim().length > 0)
NonEmptyLines(text) == SelectSeq(text, LAMBDA l : Trim(l) # "")

DefaultHeading == "Document Content"

\* the loop over the lines: sections pushed so far, and the current section
\* as a sequence of at most one section
RECURSIVE SegmentFrom(_, _, _, _)
SegmentFrom(lines, i, sections, current) ==
    IF i > Len(lines)
    THEN sections \o current
    ELSE IF isHeading(lines[i])
         THEN SegmentFrom(lines, i + 1, sections \o current,
                          << [heading |-> Trim(lines[i]), content |-> << >>] >>)
         ELSE IF current # << >>
              THEN SegmentFrom(lines, i + 1, sections,
                       << [current[1] EXCEPT !.content = Append(@, Trim(lines[i]))] >>)
              ELSE SegmentFrom(lines, i + 1, sections,
                       << [heading |-> DefaultHeading,
                           content |-> << Trim(lines[i]) >>] >>)

createBasicStructure(text) == SegmentFrom(NonEmptyLines(text), 1, << >>, << >>)

(***************************************************************************)
(* The server: one HMIAgent shared by every /api/generate-screens request, *)
(* the sessions kept in progressSessions.                                  *)
(***************************************************************************)
MaxSessionScreens == 2

Requests == { 1, 2 }
SessionIds == << "session_1", "session_2" >>

NoSession == << "none" >>
SrvScreenLists ==
    { RotList(r, n) : r \in 0..1, n \in 0..MaxSessionScreens }


NoResponse == [status |-> 0, screenAnalysis |-> NoSession, screenImages |-> << >>]

\* the documents uploaded, as lines of text
SrvDocuments ==
    { << >>, << "two pumps run" >>, << "generator power supply" >>,
      << "valve opens slowly", "two pumps run" >> }

NoDocument == << "none" >>
NoContext == [fdsContent |-> << "none" >>, systemType |-> << >>]

\* getDocumentContext: this.sessionData.fdsContent || '' and the keyword
\* profile extracted from it
getDocumentContext(fdsContent) ==
    LET content == IF fdsContent = << Undefined >> THEN << >> ELSE fdsContent
    IN  [fdsContent |-> content, systemType |-> extractSystemKeywords(content)]

SrvInit ==
    /\ progressSessions = [s \in Range(SessionIds) |-> NoSession]
    /\ agentScreenAnalysis = NoSession
    /\ agentGeneratedScreens = << >>
    /\ rpc = [r \in Requests |-> "idle"]
    /\ rscreens = [r \in Requests |-> << >>]
    /\ rspecs = [r \in Requests |-> << >>]
    /\ rresponse = [r \in Requests |-> NoResponse]
    /\ sessionDocument = [s \in Range(SessionIds) |-> NoDocument]
    /\ agentFdsContent = << Undefined >>
    /\ rcontext = [r \in Requests |-> NoContext]

\* POST /api/generate-workflow with its own agent, which reads the uploaded
\* document into its own sessionData: stores the workflow's screenAnalysis
\* under a new session id
PostGenerateWorkflow(s) ==
    /\ progressSessions[s] = NoSession
    /\ \E l \in SrvScreenLists :
          progressSessions' = [progressSessions EXCEPT ![s] = l]
    /\ \E d \in SrvDocuments :
          sessionDocument' = [sessionDocument EXCEPT ![s] = d]
    /\ UNCHANGED << agentScreenAnalysis, agentGeneratedScreens, rpc, rscreens,
                    rspecs, rresponse, agentFdsContent, rcontext >>
    /\ UNCHANGED << genVars, wfVars, docVars, extVars >>

\* POST /api/generate-screens up to the first await of generateScreenImages
PostGenerateScreens(r) ==
    /\ rpc[r] = "idle"
    /\ LET session == progressSessions[SessionIds[r]]
       IN  IF session = NoSession
           THEN /\ rresponse' = [rresponse EXCEPT ![r] =
                                    [status |-> 400, screenAnalysis |-> NoSession,
                                     screenImages |-> << >>]]
                /\ rpc' = [rpc EXCEPT ![r] = "done"]
                /\ UNCHANGED << agentScreenAnalysis, rscreens, rcontext >>
           ELSE /\ agentScreenAnalysis' = session
                /\ rcontext' = [rcontext EXCEPT ![r] = getDocumentContext(agentFdsContent)]
                /\ rscreens' = [rscreens EXCEPT ![r] = session]
                /\ rpc' = [rpc EXCEPT ![r] =
                              IF Len(session) = 0 THEN "combined" ELSE "specs"]
                /\ UNCHANGED rresponse
    /\ UNCHANGED << progressSessions, agentGeneratedScreens, rspecs,
                    sessionDocument, agentFdsContent >>
    /\ UNCHANGED << genVars, wfVars, docVars, extVars >>

\* one turn of the loop: generateScreenSpecification and createScreenImage
\* settle and the screen's entry is pushed
ScreenSpecSettles(r) ==
    /\ rpc[r] = "specs"
    /\ LET i == Len(rspecs[r]) + 1
       IN  /\ rspecs' = [rspecs EXCEPT ![r] = Append(@, rscreens[r][i])]
           /\ rpc' = [rpc EXCEPT ![r] =
                         IF i = Len(rscreens[r]) THEN "combined" ELSE "specs"]
    /\ UNCHANGED << progressSessions, agentScreenAnalysis, agentGeneratedScreens,
                    rscreens, rresponse, sessionDocument, agentFdsContent, rcontext >>
    /\ UNCHANGED << genVars, wfVars, docVars, extVars >>

\* exportWorkflowDrivenLayoutAsPNG settles
CombinedLayoutSettles(r) ==
    /\ rpc[r] = "combined"
    /\ rpc' = [rpc EXCEPT ![r] = "comprehensive"]
    /\ UNCHANGED << progressSessions, agentScreenAnalysis, agentGeneratedScreens,
                    rscreens, rspecs, rresponse, sessionDocument, agentFdsContent,
                    rcontext >>
    /\ UNCHANGED << genVars, wfVars, docVars, extVars >>

\* createComprehensiveScreenLayout settles; generateScreenImages stores the
\* generated screens, builds its result from this.sessionData and the route
\* sends it
ComprehensiveLayoutSettles(r) ==
    /\ rpc[r] = "comprehensive"
    /\ agentGeneratedScreens' = rspecs[r]
    /\ rresponse' = [rresponse EXCEPT ![r] =
                        [status |-> 200, screenAnalysis |-> agentScreenAnalysis,
                         screenImages |-> rspecs[r]]]
    /\ rpc' = [rpc EXCEPT ![r] = "done"]
    /\ UNCHANGED << progressSessions, agentScreenAnalysis, rscreens, rspecs,
                    sessionDocument, agentFdsContent, rcontext >>
    /\ UNCHANGED << genVars, wfVars, docVars, extVars >>

SrvNext ==
    \/ \E s \in Range(SessionIds) : PostGenerateWorkflow(s)
    \/ \E r \in Requests :
          \/ PostGenerateScreens(r)
          \/ ScreenSpecSettles(r)
          \/ CombinedLayoutSettles(r)
          \/ ComprehensiveLayoutSettles(r)

(***************************************************************************)
(* The specifications: each runs one part and leaves the others at rest.   *)
(***************************************************************************)
NoFile == [ext |-> ".txt", state |-> "readable", mammoth |-> "ok"]
NoContent == [kind |-> "none", lines |-> << >>]

\* document intake at rest
DocOff ==
    /\ dpc = "off"
    /\ dfile = NoFile
    /\ dtext = << >>
    /\ dcontent = NoContent
    /\ dsections = << >>
    /\ dkeywords = << >>

\* a file arrives
DocInit ==
    /\ dpc = "start"
    /\ dfile \in DocFiles
    /\ dtext \in DocTexts
    /\ dcontent = NoContent
    /\ dsections = << >>
    /\ dkeywords = << >>

\* readDocument(filePath)
DocRead ==
    /\ dpc = "start"
    /\ dcontent' = readDocument(dfile, dtext)
    /\ dpc' = IF readDocument(dfile, dtext).kind = "throws" THEN "raised" ELSE "read"
    /\ UNCHANGED << dfile, dtext, dsections, dkeywords >>
    /\ UNCHANGED << genVars, wfVars, srvVars, extVars >>

\* createBasicStructure(documentContent)
DocSegment ==
    /\ dpc = "read"
    /\ dsections' = createBasicStructure(dcontent.lines)
    /\ dpc' = "segmented"
    /\ UNCHANGED << dfile, dtext, dcontent, dkeywords >>
    /\ UNCHANGED << genVars, wfVars, srvVars, extVars >>

\* getDocumentContext: extractSystemKeywords(fdsContent)
DocKeywords ==
    /\ dpc = "segmented"
    /\ dkeywords' = extractSystemKeywords(dcontent.lines)
    /\ dpc' = "done"
    /\ UNCHANGED << dfile, dtext, dcontent, dsections >>
    /\ UNCHANGED << genVars, wfVars, srvVars, extVars >>

DocNext == DocRead \/ DocSegment \/ DocKeywords

(***************************************************************************)
(* The renderer: createScreenImage clamps the header and footer elements   *)
(* of the specification it is given, then draws.                           *)
(***************************************************************************)
DefaultHeaderHeight == 80
DefaultFooterHeight == 60
DefaultElementHeight == 20
HeaderTopMargin == 5

\* layout.header.height and layout.footer.height as given; 0 stands for a
\* missing or zero height, both of which the code replaces by the default
HeaderHeights == {0, 40, 80}
FooterHeights == {0, 60}
\* position.y and position.height of a header or footer element as given
ElementYs == {-10, 0, 7, 10, 30, 560, 700}
ElementHeights == {0, 20, 30, 100}
ImgElements == [y : ElementYs, height : ElementHeights]
ImgSpecs == [headerHeight : HeaderHeights, footerHeight : FooterHeights,
             header : ImgElements, footer : ImgElements,
             elements : {<< >>, << [y |-> 100, height |-> 50] >>}]
NoImgSpec == [headerHeight |-> 0, footerHeight |-> 0,
              header |-> [y |-> 0, height |-> 0],
              footer |-> [y |-> 0, height |-> 0], elements |-> << >>]

\* screenSpec.layout?.header?.height || 80
headerHeight(spec) ==
    IF spec.headerHeight = 0 THEN DefaultHeaderHeight ELSE spec.headerHeight

\* screenSpec.layout?.footer?.height || 60
footerHeight(spec) ==
    IF spec.footerHeight = 0 THEN DefaultFooterHeight ELSE spec.footerHeight

\* 600 - footerHeight
footerY(spec) == CanvasHeight - footerHeight(spec)

\* el.position.height || 20
heightOrDefault(el) == IF el.height = 0 THEN DefaultElementHeight ELSE el.height

\* Math.min(Math.max(y, 5), headerHeight - (height || 20))
clampHeaderY(el, spec) ==
    Min(Max(el.y, HeaderTopMargin), headerHeight(spec) - heightOrDefault(el))

\* footerY + Math.min(Math.max(y - footerY, 0), footerHeight - (height || 20))
clampFooterY(el, spec) ==
    footerY(spec) + Min(Max(el.y - footerY(spec), 0),
                        footerHeight(spec) - heightOrDefault(el))

\* the renderer at rest
ImgOff ==
    /\ ipc = "off"
    /\ iinput = NoImgSpec
    /\ ispec = NoImgSpec
    /\ icanvas = << >>

\* createScreenImage(screenSpec) is called
ImgInit ==
    /\ ipc = "start"
    /\ iinput \in ImgSpecs
    /\ ispec = iinput
    /\ icanvas = << >>

\* createScreenImage up to its first await: the background, the clamping of
\* the header and footer elements, the two bands
ImgClamp ==
    /\ ipc = "start"
    /\ ispec' = [ispec EXCEPT !.header.y = clampHeaderY(ispec.header, ispec),
                              !.footer.y = clampFooterY(ispec.footer, ispec)]
    /\ ipc' = "clamped"
    /\ UNCHANGED << iinput, icanvas >>
    /\ UNCHANGED << coreVars, notImgVars >>

\* createScreenImage from there on: the main elements, then the header
\* elements, then the footer elements are drawn and the canvas is returned
ImgDraw ==
    /\ ipc = "clamped"
    /\ icanvas' = ispec.elements \o << ispec.header, ispec.footer >>
    /\ ipc' = "returned"
    /\ UNCHANGED << iinput, ispec >>
    /\ UNCHANGED << coreVars, notImgVars >>

ImgNext == ImgClamp \/ ImgDraw

(***************************************************************************)
(* The batch: generateScreenImages generates and draws every screen of     *)
(* sessionData.screenAnalysis, then the combined and the comprehensive     *)
(* layout, and returns a summary.                                          *)
(***************************************************************************)
MaxBatchScreens == 2

BatchNames == << "Home Screen", "Alarm Screen", "Pump Screen" >>

\* sessionData.screenAnalysis: an array of screens, or the analysis object
\* that generateWorkflowDiagram stores
BatchAnalyses ==
    { [isArray |-> TRUE, screens |-> Take(BatchNames, n)] : n \in 0..MaxBatchScreens }
    \cup { [isArray |-> FALSE, screens |-> Take(BatchNames, 1)] }

NoBatchAnalysis == [isArray |-> FALSE, screens |-> << >>]
NoSummary == [totalScreens |-> 0, individualScreens |-> 0, successfulScreens |-> 0,
              failedScreens |-> 0, status |-> "none"]

\* how one iteration of the loop ends: both calls return, or
\* generateScreenSpecification throws, or createScreenImage (or the write of
\* its image) throws; without the canvas module nothing is drawn
ScreenOutcomes(canvas) ==
    IF canvas THEN {"ok", "specThrows", "drawThrows"} ELSE {"ok", "specThrows"}

\* the entry pushed to screenSpecs by the try block or by its catch block
screenSpecEntry(name, outcome, canvas) ==
    [screenTitle |-> name,
     error |-> outcome # "ok",
     imagePath |-> canvas /\ outcome = "ok"]

\* the number of entries of specs that pass the filter
RECURSIVE CountSpecs(_, _, _)
CountSpecs(specs, i, successful) ==
    IF i > Len(specs) THEN 0
    ELSE (IF (successful /\ specs[i].imagePath /\ ~specs[i].error)
              \/ (~successful /\ specs[i].error) THEN 1 ELSE 0)
         + CountSpecs(specs, i + 1, successful)

\* the summary of the return statement, with and without the canvas module
batchSummary(screens, specs, canvas) ==
    IF canvas
    THEN [totalScreens |-> Len(screens),
          individualScreens |-> Len(specs),
          successfulScreens |-> CountSpecs(specs, 1, TRUE),
          failedScreens |-> CountSpecs(specs, 1, FALSE),
          status |-> IF CountSpecs(specs, 1, FALSE) = 0 THEN "completed"
                     ELSE "partial_success"]
    ELSE [totalScreens |-> Len(screens),
          individualScreens |-> Len(specs),
          successfulScreens |-> Len(specs),
          failedScreens |-> 0,
          status |-> "completed"]

\* drawCombinedLayout: every entry of screenSpecs, failed or not, is drawn
\* by drawEnhancedScreenContainer and drawDetailedScreenInGrid
drawCombinedLayout(specs) ==
    [i \in 1..Len(specs) |-> [name |-> specs[i].screenTitle, kind |-> "screen"]]

\* createComprehensiveScreenLayout: a screen whose drawMiniScreen throws is
\* replaced by drawErrorPlaceholder
createComprehensiveScreenLayout(screens, drawn) ==
    [i \in 1..Len(screens) |->
        [name |-> screens[i], kind |-> IF drawn[i] THEN "screen" ELSE "error"]]

\* the batch at rest
BatchOff ==
    /\ bpc = "off"
    /\ bcanvas = TRUE
    /\ banalysis = NoBatchAnalysis
    /\ boutcomes = << >>
    /\ bspecs = << >>
    /\ btiles = << >>
    /\ blegacy = << >>
    /\ bsummary = NoSummary

\* generateScreenImages is called
BatchInit ==
    /\ bpc = "start"
    /\ bcanvas \in BOOLEAN
    /\ banalysis \in BatchAnalyses
    /\ boutcomes = << >>
    /\ bspecs = << >>
    /\ btiles = << >>
    /\ blegacy = << >>
    /\ bsummary = NoSummary

\* generateScreenImages up to its first await: the array test, which throws
\* outside every try block
BatchStart ==
    /\ bpc = "start"
    /\ IF ~banalysis.isArray
       THEN bpc' = "raised" /\ bsummary' = bsummary
       ELSE IF Len(banalysis.screens) > 0
            THEN bpc' = "specs" /\ bsummary' = bsummary
            ELSE IF bcanvas
                 THEN bpc' = "combined" /\ bsummary' = bsummary
                 ELSE /\ bpc' = "returned"
                      /\ bsummary' = batchSummary(banalysis.screens, << >>, FALSE)
    /\ UNCHANGED << bcanvas, banalysis, boutcomes, bspecs, btiles, blegacy >>
    /\ UNCHANGED << coreVars, notBatchVars >>

\* one iteration of the loop over the screens
BatchScreenSettles ==
    /\ bpc = "specs"
    /\ \E outcome \in ScreenOutcomes(bcanvas) :
          LET name  == banalysis.screens[Len(bspecs) + 1]
              specs == Append(bspecs, screenSpecEntry(name, outcome, bcanvas))
          IN  /\ boutcomes' = Append(boutcomes, outcome)
              /\ bspecs' = specs
              /\ IF Len(specs) < Len(banalysis.screens)
                 THEN bpc' = "specs" /\ bsummary' = bsummary
                 ELSE IF bcanvas
                      THEN bpc' = "combined" /\ bsummary' = bsummary
                      ELSE /\ bpc' = "returned"
                           /\ bsummary' = batchSummary(banalysis.screens, specs, FALSE)
    /\ UNCHANGED << bcanvas, banalysis, btiles, blegacy >>
    /\ UNCHANGED << coreVars, notBatchVars >>

\* exportWorkflowDrivenLayoutAsPNG(screenSpecs) settles; its error is logged
BatchCombinedSettles ==
    /\ bpc = "combined"
    /\ \E exported \in BOOLEAN :
          btiles' = IF exported THEN drawCombinedLayout(bspecs) ELSE << >>
    /\ bpc' = "comprehensive"
    /\ UNCHANGED << bcanvas, banalysis, boutcomes, bspecs, blegacy, bsummary >>
    /\ UNCHANGED << coreVars, notBatchVars >>

\* createComprehensiveScreenLayout(screens, documentContext) settles; its
\* error is logged; the summary is computed and returned
BatchComprehensiveSettles ==
    /\ bpc = "comprehensive"
    /\ \E saved \in BOOLEAN, drawn \in [1..Len(banalysis.screens) -> BOOLEAN] :
          blegacy' = IF saved
                     THEN createComprehensiveScreenLayout(banalysis.screens, drawn)
                     ELSE << >>
    /\ bsummary' = batchSummary(banalysis.screens, bspecs, TRUE)
    /\ bpc' = "returned"
    /\ UNCHANGED << bcanvas, banalysis, boutcomes, bspecs, btiles >>
    /\ UNCHANGED << coreVars, notBatchVars >>

BatchNext ==
    BatchStart \/ BatchScreenSettles \/ BatchCombinedSettles \/ BatchComprehensiveSettles

(***************************************************************************)
(* POST /api/generate-hmi: generateWorkflowDiagram, then                   *)
(* generateScreenImages on the same agent, then the response.              *)
(***************************************************************************)
NoHmiResponse == [status |-> 0, success |-> FALSE]

\* sessionData.screenAnalysis as generateScreenImages reads it: the value
\* generateWorkflowDiagram stored, which is the parsed analysis object, its
\* screens being the screenList property
sessionScreenAnalysis(analysis) ==
    [isArray |-> analysis.k = "array",
     screens |-> IF analysis.k = "array" THEN analysis.screenList ELSE << >>]

\* no such request
HmiOff ==
    /\ hpc = "off"
    /\ hresponse = NoHmiResponse

\* the request has arrived with its file
HmiInit ==
    /\ hpc = "workflow"
    /\ hresponse = NoHmiResponse

\* generateWorkflowDiagram has returned: generateScreenImages is called
HmiGenerateScreens ==
    /\ hpc = "workflow"
    /\ wpc = "returned"
    /\ hpc' = "screens"
    /\ bpc' = "start"
    /\ bcanvas' \in BOOLEAN
    /\ banalysis' = sessionScreenAnalysis(wanalysis)
    /\ UNCHANGED << hresponse, boutcomes, bspecs, btiles, blegacy, bsummary >>
    /\ UNCHANGED << coreVars, imgVars, laterVars >>

\* res.json with the result, or the catch block's res.status(500)
HmiRespond ==
    /\ \/ hpc = "workflow" /\ wpc = "raised"
       \/ hpc = "screens" /\ bpc \in {"returned", "raised"}
    /\ hresponse' = IF hpc = "screens" /\ bpc = "returned"
                    THEN [status |-> 200, success |-> TRUE]
                    ELSE [status |-> 500, success |-> FALSE]
    /\ hpc' = "responded"
    /\ UNCHANGED << coreVars, imgVars, batchVars, laterVars >>

\* the steps of generateScreenImages after its array test are those of
\* BatchNext
HmiNext == WfNext \/ HmiGenerateScreens \/ BatchStart \/ HmiRespond

(***************************************************************************)
(* The uploads: POST /api/generate-workflow names its session after the    *)
(* clock, works, and stores the session's record under that name.          *)
(***************************************************************************)
MaxUploads == 2
MaxClock == 3

Uploads == 1..MaxUploads

\* `session_${Date.now()}`, modelled by the number it holds
sessionIdAt(time) == time

SessionNumbers == 1..MaxClock

\* a progressSessions entry: absent, or a record, which holds the workflow
\* of an upload once the upload has stored it (workflowOf 0 before)
NoRecord == [present |-> FALSE, workflowOf |-> 0]

\* no upload yet
UpOff ==
    /\ now = 0
    /\ upc = [u \in Uploads |-> "off"]
    /\ usession = [u \in Uploads |-> 0]
    /\ uploadSessions = [n \in SessionNumbers |-> NoRecord]
    /\ uresponse = [u \in Uploads |-> 0]

\* the server is up
UpInit ==
    /\ now = 1
    /\ upc = [u \in Uploads |-> "idle"]
    /\ usession = [u \in Uploads |-> 0]
    /\ uploadSessions = [n \in SessionNumbers |-> NoRecord]
    /\ uresponse = [u \in Uploads |-> 0]

\* a millisecond passes
ClockTick ==
    /\ now < MaxClock
    /\ now' = now + 1
    /\ UNCHANGED << upc, usession, uploadSessions, uresponse >>
    /\ UNCHANGED << coreVars, earlierVars, sseVars, layoutVars >>

\* POST /api/generate-workflow up to its await: the sessionId, and
\* updateProgress, which creates the session's entry when there is none
UploadAccepted(u) ==
    /\ upc[u] = "idle"
    /\ LET id == sessionIdAt(now)
       IN  /\ usession' = [usession EXCEPT ![u] = id]
           /\ uploadSessions' =
                 IF uploadSessions[id].present THEN uploadSessions
                 ELSE [uploadSessions EXCEPT ![id] = [present |-> TRUE, workflowOf |-> 0]]
    /\ upc' = [upc EXCEPT ![u] = "working"]
    /\ UNCHANGED << now, uresponse >>
    /\ UNCHANGED << coreVars, earlierVars, sseVars, layoutVars >>

\* generateWorkflowDiagram settles: progressSessions.set(sessionId, ...) and
\* the response with the sessionId, or the catch block's status 500
UploadSettles(u) ==
    /\ upc[u] = "working"
    /\ \E generated \in BOOLEAN :
          IF generated
          THEN /\ uploadSessions' = [uploadSessions EXCEPT ![usession[u]] =
                                        [present |-> TRUE, workflowOf |-> u]]
               /\ uresponse' = [uresponse EXCEPT ![u] = usession[u]]
               /\ upc' = [upc EXCEPT ![u] = "answered"]
          ELSE /\ upc' = [upc EXCEPT ![u] = "failed"]
               /\ UNCHANGED << uploadSessions, uresponse >>
    /\ UNCHANGED << now, usession >>
    /\ UNCHANGED << coreVars, earlierVars, sseVars, layoutVars >>

UpNext ==
    \/ ClockTick
    \/ \E u \in Uploads : UploadAccepted(u) \/ UploadSettles(u)

(***************************************************************************)
(* The progress streams: GET /api/progress/:sessionId registers the        *)
(* response in sseClients, its close handler removes it, and               *)
(* sendSSEUpdate writes an update to the clients of its session.           *)
(***************************************************************************)
MaxClients == 3

Clients == 1..MaxClients

StreamSessions == {"session_1", "session_2"}

\* a Map from sessionId to a Set of clients: its keys and, per key, its set
EmptyRegistry == [keys |-> { }, sets |-> [s \in StreamSessions |-> { }]]

\* sseClients.has(sessionId)
RegistryHas(registry, s) == s \in registry.keys

\* if (!sseClients.has(sessionId)) sseClients.set(sessionId, new Set());
\* sseClients.get(sessionId).add(res)
storeClient(registry, s, c) ==
    [keys |-> registry.keys \cup {s},
     sets |-> [registry.sets EXCEPT ![s] =
                  (IF RegistryHas(registry, s) THEN @ ELSE { }) \cup {c}]]

\* a close handler that removes the client and leaves the key
closeHandlerKeepsKey(registry, s, c) ==
    IF RegistryHas(registry, s)
    THEN [registry EXCEPT !.sets[s] = @ \ {c}]
    ELSE registry

\* the handler of the request's close event
closeHandler(registry, s, c) ==
    IF RegistryHas(registry, s)
    THEN LET left == registry.sets[s] \ {c}
         IN  IF left = { }
             THEN [keys |-> registry.keys \ {s},
                   sets |-> [registry.sets EXCEPT ![s] = { }]]
             ELSE [registry EXCEPT !.sets[s] = left]
    ELSE registry

\* the clients sendSSEUpdate writes to
updateTargets(registry, s) ==
    IF RegistryHas(registry, s) THEN registry.sets[s] ELSE { }

\* one write: the session it is about and whether its client was connected
Written(s, c) == [session |-> s, connected |-> cstate[c] = "open"]

\* no stream yet
SseOff ==
    /\ sseClients = EmptyRegistry
    /\ cstate = [c \in Clients |-> "off"]
    /\ csession = [c \in Clients |-> "none"]
    /\ cwrites = [c \in Clients |-> { }]
    /\ sseMissed = { }
    /\ sseSessions = { }

\* the server is up and no client has connected
SseInit ==
    /\ sseClients = EmptyRegistry
    /\ cstate = [c \in Clients |-> "new"]
    /\ csession = [c \in Clients |-> "none"]
    /\ cwrites = [c \in Clients |-> { }]
    /\ sseMissed = { }
    /\ sseSessions = { }

\* GET /api/progress/:sessionId: the client is stored, and the initial
\* progress is written to it when the session has an entry
SseConnect(c, s) ==
    /\ cstate[c] = "new"
    /\ cstate' = [cstate EXCEPT ![c] = "open"]
    /\ csession' = [csession EXCEPT ![c] = s]
    /\ sseClients' = storeClient(sseClients, s, c)
    /\ cwrites' = IF s \in sseSessions
                  THEN [cwrites EXCEPT ![c] = @ \cup {[session |-> s, connected |-> TRUE]}]
                  ELSE cwrites
    /\ UNCHANGED << sseMissed, sseSessions >>
    /\ UNCHANGED << coreVars, earlierVars, upVars, layoutVars >>

\* the connection of a client closes and its close handler runs
SseClose(c) ==
    /\ cstate[c] = "open"
    /\ cstate' = [cstate EXCEPT ![c] = "closed"]
    /\ sseClients' = closeHandler(sseClients, csession[c], c)
    /\ UNCHANGED << csession, cwrites, sseMissed, sseSessions >>
    /\ UNCHANGED << coreVars, earlierVars, upVars, layoutVars >>

\* updateProgress(sessionId, ...): the session's entry is created when
\* there is none, and sendSSEUpdate writes to the clients of the session
UpdateProgress(s) ==
    /\ sseSessions' = sseSessions \cup {s}
    /\ LET targets == updateTargets(sseClients, s)
       IN  /\ cwrites' = [c \in Clients |->
                            IF c \in targets THEN cwrites[c] \cup {Written(s, c)}
                            ELSE cwrites[c]]
           /\ sseMissed' = sseMissed \cup
                  { c \in Clients : cstate[c] = "open" /\ csession[c] = s /\ c \notin targets }
    /\ UNCHANGED << sseClients, cstate, csession >>
    /\ UNCHANGED << coreVars, earlierVars, upVars, layoutVars >>

SseNext ==
    \/ \E c \in Clients, s \in StreamSessions : SseConnect(c, s)
    \/ \E c \in Clients : SseClose(c)
    \/ \E s \in StreamSessions : UpdateProgress(s)

(***************************************************************************)
(* The combined layout: drawCombinedLayout places one tile per screen on   *)
(* its canvas.                                                             *)
(***************************************************************************)
MaxLayoutScreens == 13

\* the canvas exportWorkflowDrivenLayoutAsPNG asks for
ExportCanvasWidth == 2400
ExportCanvasHeight == 1800

\* the grid configuration of drawCombinedLayout
GridCols == 3
GridPadding == 50
GridScreenWidth == 650
GridScreenHeight == 450
GridHeaderHeight == 140

\* a grid of four columns
tileBoxFourColumns(i) ==
    [x |-> GridPadding + (i % 4) * (GridScreenWidth + GridPadding),
     y |-> GridHeaderHeight + GridPadding + (i \div 4) * (GridScreenHeight + GridPadding),
     width |-> GridScreenWidth,
     height |-> GridScreenHeight]

\* the box of the tile of screens[i], i counted from 0
tileBox(i) ==
    [x |-> GridPadding + (i % GridCols) * (GridScreenWidth + GridPadding),
     y |-> GridHeaderHeight + GridPadding + (i \div GridCols) * (GridScreenHeight + GridPadding),
     width |-> GridScreenWidth,
     height |-> GridScreenHeight]

\* no layout asked for
LayoutOff ==
    /\ lpc = "off"
    /\ lscreens = 0
    /\ ltiles = << >>

\* the agent holds its screen specifications
LayoutInit ==
    /\ lpc = "start"
    /\ lscreens = 0
    /\ ltiles = << >>

\* exportWorkflowDrivenLayoutAsPNG calls drawCombinedLayout, which draws
\* the background, the header and the navigation arrows
LayoutExport ==
    /\ lpc = "start"
    /\ \E n \in 0..MaxLayoutScreens : lscreens' = n
    /\ lpc' = "tiles"
    /\ UNCHANGED ltiles
    /\ UNCHANGED << coreVars, earlierVars, upVars, sseVars >>

\* one turn of the loop over the screens
LayoutDrawTile ==
    /\ lpc = "tiles"
    /\ Len(ltiles) < lscreens
    /\ ltiles' = Append(ltiles, tileBox(Len(ltiles)))
    /\ UNCHANGED << lpc, lscreens >>
    /\ UNCHANGED << coreVars, earlierVars, upVars, sseVars >>

\* the loop is over: the footer is drawn and the canvas returned
LayoutReturn ==
    /\ lpc = "tiles"
    /\ Len(ltiles) = lscreens
    /\ lpc' = "returned"
    /\ UNCHANGED << lscreens, ltiles >>
    /\ UNCHANGED << coreVars, earlierVars, upVars, sseVars >>

LayoutNext == LayoutExport \/ LayoutDrawTile \/ LayoutReturn

\* the later parts at rest
EarlierOff == ImgOff /\ BatchOff /\ HmiOff

LaterOff == UpOff /\ SseOff /\ LayoutOff

ExtOff == EarlierOff /\ LaterOff

vars == << genVars, wfVars, srvVars, docVars, extVars >>

Init == GenInit /\ WfInit /\ SrvInit /\ DocOff /\ ExtOff

SpecGen == Init /\ [][GenNext]_vars

SpecWf == Init /\ [][WfNext]_vars

SpecSrv == Init /\ [][SrvNext]_vars

InitDoc == GenInit /\ WfInit /\ SrvInit /\ DocInit /\ ExtOff

SpecDoc == InitDoc /\ [][DocNext]_vars

InitImg == GenInit /\ WfInit /\ SrvInit /\ DocOff /\ ImgInit /\ BatchOff /\ HmiOff /\ LaterOff

SpecImg == InitImg /\ [][ImgNext]_vars

InitBatch == GenInit /\ WfInit /\ SrvInit /\ DocOff /\ ImgOff /\ BatchInit /\ HmiOff /\ LaterOff

SpecBatch == InitBatch /\ [][BatchNext]_vars

InitHmi == GenInit /\ WfInit /\ SrvInit /\ DocOff /\ ImgOff /\ BatchOff /\ HmiInit /\ LaterOff

SpecHmi == InitHmi /\ [][HmiNext]_vars

CoreOff == GenInit /\ WfInit /\ SrvInit /\ DocOff

InitUp == CoreOff /\ EarlierOff /\ UpInit /\ SseOff /\ LayoutOff

SpecUp == InitUp /\ [][UpNext]_vars

InitLayout == CoreOff /\ EarlierOff /\ UpOff /\ SseOff /\ LayoutInit

SpecLayout == InitLayout /\ [][LayoutNext]_vars

InitSse == CoreOff /\ EarlierOff /\ UpOff /\ SseInit /\ LayoutOff

SpecSse == InitSse /\ [][SseNext]_vars

(***************************************************************************)
(* Properties of generateScreenSpecification, checked under SpecGen.       *)
(***************************************************************************)

\* C1: every specification that generateScreenSpecification returns, the
\* repaired model reply and the rule-based fallback of every screen-name
\* category alike, has at least six elements.
C1_AtLeastSixElements ==
    gpc = "returned" => Len(gresult.elements) >= MinElements

\* a fallback specification of the tracking category is returned
C1_TrackingFallbackReturned ==
    /\ gpc = "returned"
    /\ gpath = "fallback"
    /\ Category(gscreen) = "tracking"

\* C2: in every specification returned, by the model path or the fallback,
\* each element's box lies inside the 800 x 600 canvas: 0 <= x, 0 <= y,
\* x + width <= 800 and y + height <= 600.
C2_ElementsInsideCanvas ==
    gpc = "returned" =>
        \A i \in 1..Len(gresult.elements) :
            LET pos == gresult.elements[i].position
            IN  /\ 0 <= pos.x
                /\ 0 <= pos.y
                /\ pos.x + pos.width <= CanvasWidth
                /\ pos.y + pos.height <= CanvasHeight

\* the model replied with an element far outside the canvas and its repaired
\* specification is returned
C2_FarElementRepaired ==
    /\ gpc = "returned"
    /\ gpath = "model"
    /\ \E i \in 1..Len(gresp.value.elements.items) :
          gresp.value.elements.items[i] = mFar

\* C7: for a screen with a name, generateScreenSpecification never raises to
\* its caller, whatever the model call does; on any error it returns the
\* rule-based fallback specification.
C7_NeverRaises ==
    /\ gpc # "raised"
    /\ (gpc = "returned" /\ ~ModelSpecUsable(gresp)) =>
           (gpath = "fallback" /\ gresult = generateFallbackSpec(gscreen, gdoc))

\* the model call failed and the fallback specification came back
C7_FallbackAfterFailedCall ==
    /\ gpc = "returned"
    /\ gresp.kind = "throws"
    /\ gpath = "fallback"

(***************************************************************************)
(* Properties of the workflow pipeline, checked under SpecWf.              *)
(***************************************************************************)
ComposerFinished ==
    wpc \in { "returned", "raised" } /\ wident = "ok" /\ wanalysis.hasList

\* C3: in every workflow diagram the composer returns, on the template path
\* and on the model path, systemOverview.totalScreens equals the number of
\* screenAnalysis entries, and both equal the number of input screens.
C3_ScreenCountsAgree ==
    wpc = "returned" =>
        /\ wdiagram.totalScreens = Len(wdiagram.screenAnalysis)
        /\ Len(wdiagram.screenAnalysis) = Len(wscreens)

\* the model path returned a diagram whose counts the reply chose
C3_ModelOverviewKept ==
    /\ wpc = "returned"
    /\ wpath = "model"
    /\ wresp.value.systemOverview.present
    /\ wresp.value.screenAnalysis.kind = "arr"

\* C4: in every workflow diagram the composer returns, each screenTransitions
\* entry has a from and a to that are names of screens of the input list; a
\* transition of the model naming an unknown screen never appears.
C4_TransitionsNameInputScreens ==
    wpc = "returned" =>
        \A i \in 1..Len(wdiagram.screenTransitions) :
            /\ wdiagram.screenTransitions[i].from \in Range(wscreens)
            /\ wdiagram.screenTransitions[i].to \in Range(wscreens)

\* the model path returned a diagram and the reply held a transition to a
\* screen that is not in the list
C4_GhostTransitionReplied ==
    /\ wpc = "returned"
    /\ wpath = "model"
    /\ wresp.value.navigationFlow.kind = "arr"
    /\ \E i \in 1..Len(wresp.value.navigationFlow.items) :
          LET tr == wresp.value.navigationFlow.items[i]
          IN  tr.t = "obj" /\ tr.to = GhostName

\* C6: a failed model call makes its stage use the deterministic fallback and
\* the request still completes: when the identification call throws or its
\* content cannot be parsed, generateWorkflowDiagram still returns a diagram.
C6_IdentificationFailureStillReturns ==
    (wpc \in { "returned", "raised" } /\ widresp.kind # "none"
        /\ ~analyzeWithGPT4Ok(widresp))
    => wpc = "returned"

\* the identification call threw and the invocation ended
C6_IdentificationCallThrew ==
    /\ widresp.kind = "throws"
    /\ wpc \in { "returned", "raised" }

\* C8: given a screen list of length 3 or less, the composer takes the
\* template path and makes no model call.
C8_SmallListUsesTemplate ==
    (wident = "ok" /\ wanalysis.hasList /\ Len(wanalysis.screenList) <= TemplateThreshold)
    => /\ wfcalls = 0
       /\ wpath = "template"
       /\ wpc \in { "returned", "raised" }
       /\ wpc = "returned" => wdiagram = generateTemplateBasedWorkflow(wscreens)

\* a list of exactly three screens came back as the template's diagram
C8_ThreeScreensTemplated ==
    /\ wident = "ok"
    /\ Len(wscreens) = TemplateThreshold
    /\ wpc = "returned"
    /\ wpath = "template"
    /\ wfcalls = 0

\* C9: given more than 3 screens the composer makes exactly one model call,
\* and when the call throws, its reply holds no parseable JSON object or the
\* reconciliation throws, it returns the template's workflow for the same
\* screens and does not raise.
C9_LargeListOneCallThenTemplate ==
    (ComposerFinished /\ Len(wscreens) > TemplateThreshold)
    => /\ wfcalls = 1
       /\ ~WorkflowReplyUsable(wresp, wscreens) =>
              /\ wpc = "returned"
              /\ wpath = "template"
              /\ wdiagram = generateTemplateBasedWorkflow(wscreens)

\* the composer's call threw for a list of more than three screens and the
\* template's diagram came back
C9_TemplateAfterFailedCall ==
    /\ ComposerFinished
    /\ Len(wscreens) > TemplateThreshold
    /\ wresp.kind = "throws"
    /\ wpc = "returned"
    /\ wpath = "template"

\* the reply's JSON object inside a fenced block, with or without a language
\* tag, or between the first and the last brace
FencedBlock(tokens) ==
    LET fences == { i \in 1..Len(tokens) : tokens[i] = "F" }
    IN  IF Cardinality(fences) < 2 THEN << "none" >>
        ELSE LET i == CHOOSE x \in fences : \A y \in fences : x <= y
                 j == CHOOSE x \in fences \ { i } : \A y \in fences \ { i } : x <= y
                 inner == SubSeq(tokens, i + 1, j - 1)
             IN  IF Len(inner) > 0 /\ inner[1] = "L" THEN Tail(inner) ELSE inner

ExtractableJson(tokens) ==
    /\ ~JSONparseOk(tokens)
    /\ JSONparseOk(FencedBlock(tokens)) \/ JSONparseOk(BraceSubstring(tokens))

\* C10: an identification reply that is not JSON as a whole but holds a
\* valid JSON object in a fenced block, tagged or not, or between its first
\* '{' and last '}', is extracted, parsed and returned as the analysis.
C10_FencedOrBracedJsonExtracted ==
    (wpc \in { "composing", "returned", "raised" } /\ widresp.kind = "text"
        /\ ExtractableJson(widresp.tokens) /\ widresp.value.k = "obj")
    => (wident = "ok" /\ wanalysis = widresp.value)

\* a reply with the object in a json-tagged fence was parsed
C10_TaggedFenceParsed ==
    /\ wident = "ok"
    /\ widresp.tokens = << "F", "L", "J", "F" >>
    /\ wanalysis = widresp.value
    /\ wanalysis.hasList

(***************************************************************************)
(* Properties of the server, checked under SpecSrv.                        *)
(***************************************************************************)

\* C5: two screen-generation requests for different sessions in flight at
\* once never read or overwrite each other's session state: each response
\* carries the screenAnalysis and the generated screens of its own session.
C5_ResponsesCarryOwnSession ==
    \A r \in Requests :
        (rpc[r] = "done" /\ rresponse[r].status = 200) =>
            /\ rresponse[r].screenAnalysis = progressSessions[SessionIds[r]]
            /\ rresponse[r].screenImages = progressSessions[SessionIds[r]]

\* both requests answered 200 for sessions with different screens
C5_BothAnsweredDifferentSessions ==
    /\ \A r \in Requests : rpc[r] = "done" /\ rresponse[r].status = 200
    /\ progressSessions[SessionIds[1]] # progressSessions[SessionIds[2]]

\* the identification call threw, gave no content, or gave text that neither
\* JSON.parse nor the json-fence pattern turns into JSON
IdentificationFailed(resp) ==
    \/ resp.kind \in { "throws", "nullcontent" }
    \/ /\ resp.kind = "text"
       /\ ~JSONparseOk(resp.tokens)
       /\ ~JSONparseOk(JsonFenceMatch(resp.tokens))

\* C11: one invocation of the Screen Identifier makes at most one model
\* call; when the call fails or its reply cannot be parsed it makes no
\* further call and raises to its caller, returning no screen list at all.
C11_OneCallThenError ==
    /\ widcalls <= 1
    /\ (widresp.kind # "none" /\ IdentificationFailed(widresp)) =>
           /\ widcalls = 1
           /\ wident = "failed"
           /\ wpc = "raised"
           /\ wanalysis = NoAnalysis
           /\ wscreens = << >>

\* a reply of prose only ended the invocation with an error after one call
C11_UnparsableReplyRaised ==
    /\ widresp.kind = "text"
    /\ widresp.tokens = << "T" >>
    /\ wident = "failed"
    /\ widcalls = 1

(***************************************************************************)
(* Properties of document intake, checked under SpecDoc.                   *)
(***************************************************************************)

\* C12: for every document text, the empty text included,
\* extractSystemKeywords returns a systemType of exactly one value, a
\* category of the catalog or the default industrial_control.
C12_SingleSystemType ==
    dpc = "done" =>
        /\ Len(dkeywords) = 1
        /\ dkeywords[1] \in Range(SystemTypes) \cup { DefaultSystemType }

\* the keywords of an empty text were extracted
C12_EmptyTextProfiled ==
    /\ dpc = "done"
    /\ dcontent = [kind |-> "text", lines |-> << >>]
    /\ dkeywords = << DefaultSystemType >>

RECURSIVE ConcatContents(_)
ConcatContents(sections) ==
    IF sections = << >> THEN << >>
    ELSE Head(sections).content \o ConcatContents(Tail(sections))

TrimmedNonEmptyLines(text) ==
    [i \in 1..Len(NonEmptyLines(text)) |-> Trim(NonEmptyLines(text)[i])]

Segmented == dpc \in { "segmented", "done" }

\* C13: concatenating the content lists of the segmenter's sections, in
\* section order, gives exactly the non-empty lines of the input (each
\* without its surrounding blanks): none dropped, none duplicated, also when
\* the text has heading lines.
C13_ContentsReproduceLines ==
    Segmented => ConcatContents(dsections) = TrimmedNonEmptyLines(dcontent.lines)

\* a text with a heading line between two plain lines was segmented
C13_HeadingBetweenLinesSegmented ==
    /\ Segmented
    /\ dcontent.lines = << "two pumps run", "Alarm Screen", "valve opens slowly" >>

\* C14: given an empty document (no text, or only blank lines) the segmenter
\* returns exactly one section, whose content is empty, and does not raise.
C14_EmptyDocumentOneEmptySection ==
    (Segmented /\ NonEmptyLines(dcontent.lines) = << >>) =>
        /\ Len(dsections) = 1
        /\ dsections[1].content = << >>

\* a text of blank lines only was segmented
C14_BlankLinesSegmented ==
    /\ Segmented
    /\ dcontent.lines = << "", "   " >>

(***************************************************************************)
(* Further properties of generateScreenSpecification, under SpecGen.       *)
(***************************************************************************)

\* C15: for the screen named "Alarm Screen" the specification returned has
\* at least one element of type alarm_indicator, on the model path and on
\* the fallback path.
C15_AlarmScreenHasAlarmIndicator ==
    (gpc = "returned" /\ gscreen = "Alarm Screen") =>
        \E i \in 1..Len(gresult.elements) :
            gresult.elements[i].type = "alarm_indicator"

\* the fallback specification of "Alarm Screen" is returned
C15_AlarmFallbackReturned ==
    /\ gpc = "returned"
    /\ gscreen = "Alarm Screen"
    /\ gpath = "fallback"


(***************************************************************************)
(* Properties of createScreenImage, checked under SpecImg.                 *)
(***************************************************************************)
\* C16: after the renderer's clamping step every header element has
\* 10 <= position.y and position.y + height <= headerHeight, and every
\* footer element has footerY <= position.y and position.y + height <= 600,
\* for any input y and any element height.
C16_ClampedInsideBands ==
    ipc \in {"clamped", "returned"} =>
        /\ 10 <= ispec.header.y
        /\ ispec.header.y + ispec.header.height <= headerHeight(ispec)
        /\ footerY(ispec) <= ispec.footer.y
        /\ ispec.footer.y + ispec.footer.height <= CanvasHeight

\* a header element given above the band has been clamped
C16_HeaderElementClamped ==
    ipc = "clamped" /\ iinput.header.y < HeaderTopMargin /\ ispec.header.y # iinput.header.y


(***************************************************************************)
(* Properties of generateScreenImages, checked under SpecBatch.            *)
(***************************************************************************)
\* the screens whose generation or drawing threw
FailedScreens == { i \in 1..Len(boutcomes) : boutcomes[i] # "ok" }

\* C17: when generating or drawing one screen throws during
\* generateScreenImages, the batch still completes for all other screens,
\* the failed screen appears in the combined layout as an ERROR placeholder
\* tile with its name, and the summary counts it in failedScreens and not in
\* successfulScreens, so that successfulScreens + failedScreens is the number
\* of screens.
C17_FailedScreenReported ==
    /\ (banalysis.isArray => bpc # "raised")
    /\ (bpc = "returned" /\ FailedScreens # {}) =>
          /\ Len(bspecs) = Len(banalysis.screens)
          /\ \A i \in FailedScreens :
                \E t \in 1..Len(btiles) :
                    btiles[t] = [name |-> banalysis.screens[i], kind |-> "error"]
          /\ bsummary.failedScreens = Cardinality(FailedScreens)
          /\ bsummary.successfulScreens = Len(banalysis.screens) - Cardinality(FailedScreens)
          /\ bsummary.successfulScreens + bsummary.failedScreens = Len(banalysis.screens)

\* a batch of two screens has returned after the drawing of one of them threw
\* and the combined layout was exported
C17_OneScreenFailedBatchReturned ==
    /\ bpc = "returned"
    /\ bcanvas
    /\ boutcomes = << "ok", "drawThrows" >>
    /\ Len(btiles) = 2


(***************************************************************************)
(* Properties of readDocument, checked under SpecDoc.                      *)
(***************************************************************************)
\* C18: readDocument never throws to its caller, for any file extension and
\* any file state: it returns the extracted text, else the raw text, else the
\* placeholder string, and the pipeline continues.
C18_ReadDocumentNeverThrows ==
    /\ dpc # "raised"
    /\ dpc \in {"read", "segmented", "done"} =>
          dcontent.kind \in {"text", "raw", "placeholder"}

\* a .docx file that cannot be read has been answered with the placeholder
C18_PlaceholderReturned ==
    /\ dpc = "read"
    /\ dfile.ext = ".docx" /\ dfile.state = "missing"
    /\ dcontent = [kind |-> "placeholder", lines |-> << PlaceholderLine >>]


(***************************************************************************)
(* Properties of POST /api/generate-hmi, checked under SpecHmi.            *)
(***************************************************************************)
\* C19: for a POST /api/generate-hmi whose document is readable and whose
\* screen identification and workflow composition succeed, the request
\* returns success with the generated design: generateWorkflowDiagram and
\* then generateScreenImages on the same agent complete without raising and
\* the screens that were identified are generated.
C19_GenerateHmiSucceeds ==
    (hpc = "responded" /\ wpc = "returned") =>
        /\ hresponse = [status |-> 200, success |-> TRUE]
        /\ bpc = "returned"
        /\ bsummary.totalScreens = Len(wanalysis.screenList)

\* a request whose workflow was composed by the model has been answered
C19_AnsweredAfterWorkflow ==
    hpc = "responded" /\ wpc = "returned" /\ wpath = "model" /\ Len(wscreens) > TemplateThreshold


(***************************************************************************)
(* Properties of the two-step flow's document context, checked under       *)
(* SpecSrv.                                                                *)
(***************************************************************************)
\* C20: in the two-step flow (POST /api/generate-workflow, then POST
\* /api/generate-screens with the returned sessionId) the document text and
\* the keyword profile (system type) used when generating and rendering the
\* screens of a session are the ones computed from that session's uploaded
\* document.
C20_ScreensUseSessionDocument ==
    \A r \in Requests :
        rcontext[r] # NoContext =>
            /\ rcontext[r].fdsContent = sessionDocument[SessionIds[r]]
            /\ rcontext[r].systemType = extractSystemKeywords(sessionDocument[SessionIds[r]])

\* the screens of a session whose document is about pumps have been generated
C20_PumpSessionScreensGenerated ==
    \E r \in Requests :
        /\ rpc[r] = "done"
        /\ rresponse[r].status = 200
        /\ sessionDocument[SessionIds[r]] = << "two pumps run" >>
        /\ extractSystemKeywords(sessionDocument[SessionIds[r]]) = << "pump_system" >>


(***************************************************************************)
(* Properties of the keyword scoring, checked under SpecDoc.               *)
(***************************************************************************)
\* the categories whose score on the text is significant
StrongTypes(text) ==
    { t \in Range(SystemTypes) : systemTypeScore(text, t) >= SignificantScore }

\* C21: the systemType returned by extractSystemKeywords is the category
\* with the highest score whenever that highest score is at least 3, and is
\* the default industrial_control exactly when no category scores at least 3.
C21_HighestScoreWins ==
    dpc = "done" =>
        /\ StrongTypes(dcontent.lines) # { } =>
              \E t \in StrongTypes(dcontent.lines) :
                  /\ dkeywords = << t >>
                  /\ \A u \in Range(SystemTypes) :
                        systemTypeScore(dcontent.lines, u) <= systemTypeScore(dcontent.lines, t)
        /\ (dkeywords = << DefaultSystemType >>) <=> (StrongTypes(dcontent.lines) = { })

\* a text on which two categories score differently has been profiled
C21_TwoCategoriesScored ==
    /\ dpc = "done"
    /\ dcontent.lines = << "valve opens slowly", "two pumps run" >>
    /\ systemTypeScore(dcontent.lines, "valve_control") > 0
    /\ systemTypeScore(dcontent.lines, "valve_control")
          < systemTypeScore(dcontent.lines, "pump_system")
    /\ dkeywords = << "pump_system" >>


(***************************************************************************)
(* Further properties of generateScreenSpecification, checked under        *)
(* SpecGen.                                                                *)
(***************************************************************************)
\* C22: every screen specification emitted by the generator, whether built
\* from the model's JSON or from the rule-based fallback after a failed call
\* or parse, has all of the top-level fields screenPurpose, navigation,
\* layout, colorScheme, functionalDescription and recommendations.
C22_AllTopLevelFieldsPresent ==
    gpc = "returned" =>
        { "screenPurpose", "navigation", "layout", "colorScheme",
          "functionalDescription", "recommendations" } \subseteq gresult.fields

\* the fallback specification has been returned after an unparsable reply
C22_FallbackAfterUnparsableReply ==
    gpc = "returned" /\ gpath = "fallback" /\ gresp.kind = "text"


\* an element that is a title: a header_title, or a text element whose box
\* lies in the header band
TitleLike(el) ==
    \/ el.type = "header_title"
    \/ el.type = "text" /\ el.position.y + el.position.height <= DefaultHeaderHeight

\* the elements of the model's reply, as far as they are objects
ModelItems(resp) ==
    IF resp.value.t = "obj" /\ resp.value.elements.t = "arr"
    THEN resp.value.elements.items ELSE << >>

\* C23: every screen specification emitted by the generator contains at
\* least one title-like element (a header_title, or a text element placed in
\* the header band) and at least one element of type status_indicator; when
\* the model's elements lack a title the synthesized title is prepended, and
\* when the elements lack a status indicator the synthesized one is appended.
C23_TitleAndStatusPresent ==
    gpc = "returned" =>
        LET els == gresult.elements
        IN  /\ \E i \in 1..Len(els) : TitleLike(els[i])
            /\ \E i \in 1..Len(els) : els[i].type = "status_indicator"
            /\ (gpath = "model"
                  /\ \A i \in 1..Len(ModelItems(gresp)) :
                        ModelItems(gresp)[i].type # "header_title")
               => els[1] = El("text", gscreen, 20, 25, 400, 30)
            /\ (gpath = "model"
                  /\ \A i \in 1..(Len(els) - 1) : els[i].type # "status_indicator")
               => els[Len(els)] = El("status_indicator", "SYSTEM READY", 600, 25, 140, 30)

\* a reply of six buttons, which has neither a title nor a status indicator,
\* has been repaired and returned
C23_ButtonsOnlyReplyRepaired ==
    /\ gpc = "returned"
    /\ gpath = "model"
    /\ ModelItems(gresp) = [i \in 1..6 |-> mButton]
    /\ Len(gresult.elements) = 8


\* C24: after the validation pass on a model-returned specification, every
\* element of the specification, model-supplied or synthesized, has a width
\* between 80 and 400 inclusive and a height of at least 30.
C24_WidthAndHeightInRange ==
    (gpc = "returned" /\ gpath = "model") =>
        \A i \in 1..Len(gresult.elements) :
            /\ 80 <= gresult.elements[i].position.width
            /\ gresult.elements[i].position.width <= 400
            /\ 30 <= gresult.elements[i].position.height

\* a reply holding an element 900 wide has been validated and returned with
\* that element 400 wide
C24_WideElementValidated ==
    /\ gpc = "returned"
    /\ gpath = "model"
    /\ \E i \in 1..Len(ModelItems(gresp)) : ModelItems(gresp)[i] = mFar
    /\ \E i \in 1..Len(gresult.elements) :
          gresult.elements[i].label = "PRESSURE" /\ gresult.elements[i].position.width = 400


(***************************************************************************)
(* Further properties of the composer, checked under SpecWf.               *)
(***************************************************************************)
\* a property of a transition that holds a value
IsSet(v) == v # Undefined /\ v # ""

\* C25: after the reconciliation pass every entry of
\* navigationFlow.screenTransitions is an object with from, to, trigger and
\* description all set: an entry that arrived as a bare "A -> B" string is
\* replaced by the object with from = A and to = B, and an entry that cannot
\* be parsed into a from and a to is dropped.
C25_TransitionsNormalized ==
    (wpc = "returned" /\ wpath = "model") =>
        \A i \in 1..Len(wdiagram.screenTransitions) :
            LET tr == wdiagram.screenTransitions[i]
            IN  /\ IsSet(tr.from)
                /\ IsSet(tr.to)
                /\ IsSet(tr.trigger)
                /\ tr.description # << >>

\* a reply whose transitions hold a bare "A -> B" string has been reconciled
\* and the string replaced by its object
C25_ArrowStringReplaced ==
    /\ wpc = "returned"
    /\ wpath = "model"
    /\ wresp.value.navigationFlow.items = << TrStr(<< "Alarm Screen", "Settings Screen" >>) >>
    /\ wdiagram.screenTransitions =
          << [from |-> "Alarm Screen", to |-> "Settings Screen",
              trigger |-> "User selection",
              description |-> Navigate("Alarm Screen", "Settings Screen")] >>


\* C26: on the template path the workflow chains the screens in input order:
\* for an input list s1..sn the transitions are exactly s_i -> s_(i+1) for
\* each pair of consecutive screens, and each screen's navigation refers to
\* its previous and its next screen in that order.
C26_TemplateChainsScreens ==
    (wpc = "returned" /\ wpath = "template") =>
        /\ [i \in 1..Len(wdiagram.screenTransitions) |->
               << wdiagram.screenTransitions[i].from, wdiagram.screenTransitions[i].to >>]
           = [i \in 1..(Len(wscreens) - 1) |-> << wscreens[i], wscreens[i + 1] >>]
        /\ \A i \in 1..Len(wscreens) :
              LET nav == generateNavigation(wscreens[i], wscreens)
              IN  /\ i > 1 => wscreens[i - 1] \in Range(nav.from) \cup Range(nav.to)
                  /\ i < Len(wscreens) => wscreens[i + 1] \in Range(nav.to)

\* the template has composed the workflow of three screens whose first is
\* the home screen
C26_ThreeScreensFromHome ==
    /\ wpc = "returned"
    /\ wpath = "template"
    /\ wscreens = << "Home Screen", "Pump Screen", "Alarm Screen" >>
    /\ Len(wdiagram.screenTransitions) = 2


\* C28: the validation pass never removes, reorders or retypes an element
\* returned by the model: the model's elements appear in the validated
\* specification in their original relative order with unchanged type and
\* label, only their position fields may differ, and synthesized elements
\* are added only before the first or after the last of them.
C28_ModelElementsKept ==
    (gpc = "returned" /\ gpath = "model") =>
        LET items == ModelItems(gresp)
            els   == gresult.elements
        IN  /\ Len(items) <= Len(els)
            /\ \E k \in 0..(Len(els) - Len(items)) :
                  \A i \in 1..Len(items) :
                      /\ els[k + i].type = items[i].type
                      /\ els[k + i].label = items[i].label
                      /\ els[k + i].t = items[i].t

\* a reply of seven elements, the far gauge alternating with the button, has
\* been validated and returned
C28_SevenElementsValidated ==
    /\ gpc = "returned"
    /\ gpath = "model"
    /\ Len(ModelItems(gresp)) = MaxModelElems
    /\ ModelItems(gresp)[1] = mFar
    /\ ModelItems(gresp)[2] = mButton
    /\ gresult.elements[2].position # mFar.position


(***************************************************************************)
(* Properties of the uploads' session ids, checked under SpecUp.           *)
(***************************************************************************)
\* C27: every upload accepted by POST /api/generate-workflow is given a
\* sessionId different from the sessionId of every other upload, including
\* uploads accepted at the same time, so the session record stored for one
\* upload is never replaced by the record of another upload.
C27_SessionIdsDistinct ==
    /\ \A u, v \in Uploads :
          (u # v /\ upc[u] \notin {"idle", "off"} /\ upc[v] \notin {"idle", "off"})
              => usession[u] # usession[v]
    /\ \A u \in Uploads :
          upc[u] = "answered" => uploadSessions[uresponse[u]].workflowOf = u

\* two uploads accepted a millisecond apart have both stored their record
C27_TwoUploadsStored ==
    /\ upc = [u \in Uploads |-> "answered"]
    /\ usession[1] # usession[2]
    /\ uploadSessions[usession[1]].workflowOf = 1
    /\ uploadSessions[usession[2]].workflowOf = 2


(***************************************************************************)
(* Properties of the combined layout's tiles, checked under SpecLayout.    *)
(***************************************************************************)
\* the tile of screens[i] as drawn
TileOf(i) == ltiles[i + 1]

\* two boxes share a point of positive area
Overlap(a, b) ==
    /\ a.x < b.x + b.width
    /\ b.x < a.x + a.width
    /\ a.y < b.y + b.height
    /\ b.y < a.y + a.height

\* a box lies entirely inside the exported canvas
InsideCanvas(a) ==
    /\ a.x >= 0
    /\ a.y >= 0
    /\ a.x + a.width <= ExportCanvasWidth
    /\ a.y + a.height <= ExportCanvasHeight

\* C29: on the 2400 by 1800 canvas with 3 columns, 650 by 450 tiles, 50
\* padding and a 140 header, the tile of screen i is at column i mod 3 and
\* row floor(i / 3), no two tiles overlap, a tile lies inside the canvas
\* exactly when i <= 8, and the tiles from index 9 on extend below the
\* canvas bottom.
C29_TilesOnGrid ==
    LET drawn == 0..(Len(ltiles) - 1)
    IN  /\ \A i \in drawn :
              /\ TileOf(i).x = 50 + (i % 3) * 700
              /\ TileOf(i).y = 190 + (i \div 3) * 500
              /\ TileOf(i).width = 650
              /\ TileOf(i).height = 450
              /\ InsideCanvas(TileOf(i)) <=> i <= 8
              /\ i >= 9 => TileOf(i).y + TileOf(i).height > 1800
        /\ \A i, j \in drawn : i # j => ~Overlap(TileOf(i), TileOf(j))

\* a layout of ten screens or more has been drawn to its last tile
C29_TenScreensDrawn ==
    /\ lpc = "returned"
    /\ lscreens >= 10
    /\ Len(ltiles) = lscreens
    /\ ~InsideCanvas(TileOf(9))
    /\ InsideCanvas(TileOf(8))


(***************************************************************************)
(* Properties of the progress streams, checked under SpecSse.              *)
(***************************************************************************)
\* the clients connected to /api/progress/s
ConnectedTo(s) == { c \in Clients : cstate[c] = "open" /\ csession[c] = s }

\* C30: a progress update for session S is written to exactly the clients
\* currently connected to /api/progress/S, never to a client connected for
\* a different session and never to a client after its connection has
\* closed; after the last client of a session closes, no entry for that
\* session remains in the client registry.
C30_UpdatesReachConnectedClients ==
    /\ \A c \in Clients : \A w \in cwrites[c] :
          w.session = csession[c] /\ w.connected
    /\ sseMissed = { }
    /\ \A s \in StreamSessions :
          /\ updateTargets(sseClients, s) = ConnectedTo(s)
          /\ RegistryHas(sseClients, s) <=> ConnectedTo(s) # { }

\* the only client of session_1 has closed after an update was written to
\* it, while a client of session_2 is connected and has been written to
C30_LastClientClosed ==
    /\ \E c \in Clients :
          /\ cstate[c] = "closed"
          /\ csession[c] = "session_1"
          /\ cwrites[c] # { }
    /\ ConnectedTo("session_1") = { }
    /\ "session_1" \in sseSessions
    /\ \E c \in ConnectedTo("session_2") : cwrites[c] # { }

====
